---- MODULE Spec2Model ----
(***************************************************************************)
(* A model of the decision layer of project-kickoff: the constraint engine *)
(* (core/constraints.ts), the unified stack validator with its advisory    *)
(* LLM validator, the compatibility matrix, the fragment registry and the  *)
(* generation engine, and the create flows that lead to file generation.   *)
(***************************************************************************)
EXTENDS Integers, Sequences, FiniteSets, TLC

VARIABLES
    pc,           \* position of the operation that is running
    config,       \* the ProjectConfig handed to the validators
    rulesResult,  \* last ValidationResult returned by validateConstraints
    prevResult,   \* the ValidationResult of the call before the last one
    calls,        \* number of validateConstraints calls made so far
    optionA,      \* first option id handed to areCompatible
    optionB,      \* second option id handed to areCompatible
    compat,       \* the answers of areCompatible for (A, B) and for (B, A)
    catalog,      \* fragment id -> its dependencies and incompatibleWith lists
    selected,     \* the selected fragments, as the list of their ids
    order,        \* outcome of resolveFragmentOrder on the selection
    report,       \* outcome of validateFragmentDependencies on the selection
    context,      \* the GeneratorContext handed to generateProject
    gen,          \* generateProject's locals: warnings, errors, plan, result
    disk,         \* the files written under the output directory
    options,      \* the ValidatorOptions handed to validateStack
    env,          \* the providers whose API key is set in the environment
    llmCall,      \* the request validateWithLLM is waiting on
    requests,     \* the providers asked so far, in order
    stackResult,  \* the StackValidationResult returned by validateStack
    cli,          \* the create command: its options and whether the project path exists
    option,       \* the StackOption handed to scoreOption
    scoringContext, \* the ScoringContext: requirements, weights, existing selections
    scored,       \* the ScoredOption returned by scoreOption
    candidates,   \* the options handed to scoreAndRankOptions
    ranked,       \* the list returned by scoreAndRankOptions
    prevRanked,   \* the list returned by the call before the last one
    flow,         \* the FlowState of a QuestionFlow: answers, history, skipped, categories
    question,     \* runFlow's local: the id of the question being asked
    flowResult,   \* the FlowResult returned by runFlow
    flowCalls     \* number of setAnswer calls made on the flow so far

engineVars == <<config, rulesResult, prevResult, calls>>
compatVars == <<optionA, optionB, compat>>
registryVars == <<catalog, selected, order, report>>
generatorVars == <<context, gen, disk>>
stackVars == <<options, env, llmCall, requests, stackResult>>
scorerVars == <<option, scoringContext, scored, candidates, ranked, prevRanked>>
flowVars == <<flow, question, flowResult, flowCalls>>

vars == <<pc, engineVars, compatVars, registryVars, generatorVars, stackVars, cli, scorerVars,
          flowVars>>

\* what an operation of one component leaves alone
notEngine == <<compatVars, registryVars, generatorVars, stackVars, cli, scorerVars,
    flowVars>>
notCompat == <<engineVars, registryVars, generatorVars, stackVars, cli, scorerVars,
    flowVars>>
notRegistry == <<engineVars, compatVars, generatorVars, stackVars, cli, scorerVars,
    flowVars>>
notGenerator == <<engineVars, compatVars, stackVars, cli, scorerVars, flowVars>>
notStack == <<compatVars, registryVars, generatorVars, cli, scorerVars, flowVars>>
notCreate == <<compatVars, registryVars, stackVars, scorerVars, flowVars>>
notScorer == <<engineVars, compatVars, registryVars, generatorVars, stackVars, cli, flowVars>>
notFlow == <<engineVars, compatVars, registryVars, generatorVars, stackVars, cli, scorerVars>>

\* the value of a variable that holds no result yet
Null == [null |-> TRUE]

(***************************************************************************)
(* Bounds of the model                                                     *)
(***************************************************************************)
\* a configuration differs from the all-default one in at most this many fields
MaxChanged == 4
\* validateConstraints is called at most this many times on one configuration
MaxCalls == 2
\* a fragment catalog declares at most this many dependency and incompatibility entries
MaxRelations == 3
\* a GeneratorContext carries at most this many category selections
MaxSelections == 2
\* a reply of a reasoning service lists at most this many issues
MaxIssues == 2
\* scoreAndRankOptions is handed at most this many options
MaxOptions == 3
\* a caller makes at most this many setAnswer calls on one QuestionFlow
MaxAnswers == 5

(***************************************************************************)
(* ProjectConfig: the fields the constraint predicates read                *)
(***************************************************************************)
DatabaseProviders == {"none", "d1", "firebase", "mongodb-local", "convex", "pocketbase", "supabase"}
OrmChoices == {"none", "prisma", "drizzle", "sqlalchemy", "gorm", "diesel"}
AuthProviders == {"none", "better-auth", "clerk", "supabase-auth", "convex-auth", "firebase-auth", "pocketbase-auth"}
ProjectTypes == {"nextjs", "hono-api", "tanstack-start"}
Runtimes == {"node", "bun", "python", "go", "rust"}
VectorDBProviders == {"none", "turbopuffer", "supabase-vector"}
EmbeddingProviders == {"none", "openai"}
LocalAIProviders == {"none", "mlx"}

ProjectConfig ==
    [databaseProvider : DatabaseProviders, orm : OrmChoices, authProvider : AuthProviders,
     type : ProjectTypes, runtime : Runtimes, vectorDB : VectorDBProviders,
     embeddingProvider : EmbeddingProviders, localAI : LocalAIProviders]

ConfigFields ==
    {"databaseProvider", "orm", "authProvider", "type", "runtime", "vectorDB",
     "embeddingProvider", "localAI"}

\* every category at its sentinel, on the default Next.js / Node.js project
DefaultConfig ==
    [databaseProvider |-> "none", orm |-> "none", authProvider |-> "none",
     type |-> "nextjs", runtime |-> "node", vectorDB |-> "none",
     embeddingProvider |-> "none", localAI |-> "none"]

Changed(cfg) == {f \in ConfigFields : cfg[f] # DefaultConfig[f]}

Configs(k) == {cfg \in ProjectConfig : Cardinality(Changed(cfg)) <= k}

(***************************************************************************)
(* The state of a component that a specification does not exercise         *)
(***************************************************************************)
IdleEngine ==
    /\ config = DefaultConfig
    /\ rulesResult = Null
    /\ prevResult = Null
    /\ calls = 0

IdleCompat ==
    /\ optionA = "none"
    /\ optionB = "none"
    /\ compat = Null

IdleRegistry ==
    /\ catalog = <<>>
    /\ selected = <<>>
    /\ order = Null
    /\ report = Null

IdleGenerator ==
    /\ context = Null
    /\ gen = Null
    /\ disk = {}

IdleStack ==
    /\ options = Null
    /\ env = {}
    /\ llmCall = Null
    /\ requests = <<>>
    /\ stackResult = Null

IdleCreate ==
    /\ cli = Null

IdleScorer ==
    /\ option = Null
    /\ scoringContext = Null
    /\ scored = Null
    /\ candidates = <<>>
    /\ ranked = Null
    /\ prevRanked = Null

IdleFlow ==
    /\ flow = Null
    /\ question = "null"
    /\ flowResult = Null
    /\ flowCalls = 0

(***************************************************************************)
(* CONSTRAINTS, in registration order.  A violation carries the id, the    *)
(* message and the docs link of its constraint; both are fixed by the id,  *)
(* so a violation is represented by the id.                                *)
(***************************************************************************)
CONSTRAINTS ==
    << [id |-> "d1-requires-drizzle", severity |-> "error"],
       [id |-> "better-auth-nextjs-bun", severity |-> "error"],
       [id |-> "turbopuffer-latency", severity |-> "warning"],
       [id |-> "prisma-edge-warning", severity |-> "warning"],
       [id |-> "firebase-orm-mismatch", severity |-> "error"],
       [id |-> "mongodb-sql-orm", severity |-> "error"],
       [id |-> "convex-orm-mismatch", severity |-> "error"],
       [id |-> "pocketbase-orm-mismatch", severity |-> "error"],
       [id |-> "auth-needs-database", severity |-> "warning"],
       [id |-> "vectordb-needs-embeddings", severity |-> "warning"],
       [id |-> "mlx-apple-only", severity |-> "warning"],
       [id |-> "supabase-vector-requires-supabase", severity |-> "error"],
       [id |-> "supabase-auth-requires-supabase", severity |-> "error"],
       [id |-> "convex-auth-requires-convex", severity |-> "error"],
       [id |-> "firebase-auth-requires-firebase", severity |-> "error"],
       [id |-> "pocketbase-auth-requires-pocketbase", severity |-> "error"],
       [id |-> "python-orm-runtime-mismatch", severity |-> "error"],
       [id |-> "go-orm-runtime-mismatch", severity |-> "error"],
       [id |-> "rust-orm-runtime-mismatch", severity |-> "error"],
       [id |-> "tanstack-requires-ts", severity |-> "error"] >>

\* the check predicate of the constraint with the given id
check(id, cfg) ==
    CASE id = "d1-requires-drizzle" ->
            cfg.databaseProvider = "d1" /\ cfg.orm = "prisma"
      [] id = "better-auth-nextjs-bun" ->
            cfg.authProvider = "better-auth" /\ cfg.type = "nextjs" /\ cfg.runtime = "bun"
      [] id = "turbopuffer-latency" ->
            cfg.vectorDB = "turbopuffer"
      [] id = "prisma-edge-warning" ->
            cfg.orm = "prisma" /\ (cfg.runtime = "bun" \/ cfg.type = "hono-api")
      [] id = "firebase-orm-mismatch" ->
            cfg.databaseProvider = "firebase" /\ cfg.orm # "none"
      [] id = "mongodb-sql-orm" ->
            cfg.databaseProvider = "mongodb-local" /\ cfg.orm \notin {"none", "prisma"}
      [] id = "convex-orm-mismatch" ->
            cfg.databaseProvider = "convex" /\ cfg.orm # "none"
      [] id = "pocketbase-orm-mismatch" ->
            cfg.databaseProvider = "pocketbase" /\ cfg.orm # "none"
      [] id = "auth-needs-database" ->
            /\ cfg.authProvider # "none"
            /\ cfg.authProvider \notin {"clerk", "auth0", "workos", "kinde"}
            /\ cfg.databaseProvider = "none"
      [] id = "vectordb-needs-embeddings" ->
            cfg.vectorDB # "none" /\ cfg.embeddingProvider = "none"
      [] id = "mlx-apple-only" ->
            cfg.localAI = "mlx"
      [] id = "supabase-vector-requires-supabase" ->
            cfg.vectorDB = "supabase-vector" /\ cfg.databaseProvider # "supabase"
      [] id = "supabase-auth-requires-supabase" ->
            cfg.authProvider = "supabase-auth" /\ cfg.databaseProvider # "supabase"
      [] id = "convex-auth-requires-convex" ->
            cfg.authProvider = "convex-auth" /\ cfg.databaseProvider # "convex"
      [] id = "firebase-auth-requires-firebase" ->
            cfg.authProvider = "firebase-auth" /\ cfg.databaseProvider # "firebase"
      [] id = "pocketbase-auth-requires-pocketbase" ->
            cfg.authProvider = "pocketbase-auth" /\ cfg.databaseProvider # "pocketbase"
      [] id = "python-orm-runtime-mismatch" ->
            cfg.orm \in {"sqlalchemy", "tortoise", "sqlmodel"} /\ cfg.runtime # "python"
      [] id = "go-orm-runtime-mismatch" ->
            cfg.orm \in {"gorm", "sqlx-go"} /\ cfg.runtime # "go"
      [] id = "rust-orm-runtime-mismatch" ->
            cfg.orm \in {"diesel", "sqlx-rust", "sea-orm"} /\ cfg.runtime # "rust"
      [] id = "tanstack-requires-ts" ->
            cfg.type = "tanstack-start" /\ cfg.runtime \notin {"node", "bun"}
      [] OTHER -> FALSE

(***************************************************************************)
(* validateConstraints: one pass over CONSTRAINTS, pushing each matching   *)
(* constraint's violation onto the list of its severity.                   *)
(***************************************************************************)
RECURSIVE validateLoop(_, _, _, _)
validateLoop(cfg, i, errors, warnings) ==
    IF i > Len(CONSTRAINTS)
    THEN [valid |-> Len(errors) = 0, errors |-> errors, warnings |-> warnings]
    ELSE LET constraint == CONSTRAINTS[i] IN
         IF check(constraint.id, cfg)
         THEN IF constraint.severity = "error"
              THEN validateLoop(cfg, i + 1, Append(errors, constraint.id), warnings)
              ELSE validateLoop(cfg, i + 1, errors, Append(warnings, constraint.id))
         ELSE validateLoop(cfg, i + 1, errors, warnings)

\* a loop that stops at the first error-severity match
RECURSIVE shortCircuitLoop(_, _, _, _)
shortCircuitLoop(cfg, i, errors, warnings) ==
    IF i > Len(CONSTRAINTS) \/ Len(errors) > 0
    THEN [valid |-> Len(errors) = 0, errors |-> errors, warnings |-> warnings]
    ELSE LET constraint == CONSTRAINTS[i] IN
         IF check(constraint.id, cfg)
         THEN IF constraint.severity = "error"
              THEN shortCircuitLoop(cfg, i + 1, Append(errors, constraint.id), warnings)
              ELSE shortCircuitLoop(cfg, i + 1, errors, Append(warnings, constraint.id))
         ELSE shortCircuitLoop(cfg, i + 1, errors, warnings)

validateConstraints_shortCircuit(cfg) == shortCircuitLoop(cfg, 1, <<>>, <<>>)

\* valid computed from both lists instead of the errors alone
validateConstraints_strict(cfg) ==
    LET r == validateLoop(cfg, 1, <<>>, <<>>) IN
    [r EXCEPT !.valid = (Len(r.errors) = 0 /\ Len(r.warnings) = 0)]

\* valid returned true whatever the lists hold
validateConstraints_lenient(cfg) ==
    [validateLoop(cfg, 1, <<>>, <<>>) EXCEPT !.valid = TRUE]

validateConstraints(cfg) == validateLoop(cfg, 1, <<>>, <<>>)

(***************************************************************************)
(* The built-in presets (lib/presets) and their expansion to a config      *)
(***************************************************************************)
Undefined == "undefined"

\* a ?? b
coalesce(a, b) == IF a # Undefined THEN a ELSE b

\* the fields of every built-in preset that the constraint predicates read
PRESETS ==
    "saas-starter" :>
        [type |-> "nextjs", runtime |-> "node", databaseProvider |-> "supabase",
         orm |-> "drizzle", authProvider |-> "supabase-auth", vectorDB |-> Undefined,
         embeddingProvider |-> Undefined, localAI |-> Undefined] @@
    "api-microservice" :>
        [type |-> "hono-api", runtime |-> "bun", databaseProvider |-> "neon",
         orm |-> "drizzle", authProvider |-> "none", vectorDB |-> Undefined,
         embeddingProvider |-> Undefined, localAI |-> Undefined] @@
    "tanstack-hono" :>
        [type |-> "tanstack-start", runtime |-> "bun", databaseProvider |-> "turso",
         orm |-> "drizzle", authProvider |-> "better-auth", vectorDB |-> Undefined,
         embeddingProvider |-> Undefined, localAI |-> Undefined] @@
    "edge-api" :>
        [type |-> "hono-api", runtime |-> "bun", databaseProvider |-> "turso",
         orm |-> "drizzle", authProvider |-> "none", vectorDB |-> Undefined,
         embeddingProvider |-> Undefined, localAI |-> Undefined] @@
    "quick-cli" :>
        [type |-> "cli", runtime |-> "node", databaseProvider |-> "none",
         orm |-> "none", authProvider |-> "none", vectorDB |-> Undefined,
         embeddingProvider |-> Undefined, localAI |-> Undefined] @@
    "landing-page" :>
        [type |-> "static", runtime |-> "node", databaseProvider |-> "none",
         orm |-> "none", authProvider |-> "none", vectorDB |-> Undefined,
         embeddingProvider |-> Undefined, localAI |-> Undefined] @@
    "mcp-tool" :>
        [type |-> "mcp-server", runtime |-> "node", databaseProvider |-> "none",
         orm |-> "none", authProvider |-> "none", vectorDB |-> Undefined,
         embeddingProvider |-> Undefined, localAI |-> Undefined] @@
    "ai-rag-app" :>
        [type |-> "nextjs", runtime |-> "node", databaseProvider |-> "supabase",
         orm |-> "drizzle", authProvider |-> "supabase-auth", vectorDB |-> "supabase-vector",
         embeddingProvider |-> "openai", localAI |-> "none"] @@
    "ai-agent" :>
        [type |-> "hono-api", runtime |-> "bun", databaseProvider |-> "turso",
         orm |-> "drizzle", authProvider |-> "none", vectorDB |-> "chroma",
         embeddingProvider |-> "ollama", localAI |-> "ollama"] @@
    "fastapi-starter" :>
        [type |-> "fastapi", runtime |-> "python", databaseProvider |-> "postgres-local",
         orm |-> "sqlalchemy", authProvider |-> "none", vectorDB |-> Undefined,
         embeddingProvider |-> Undefined, localAI |-> Undefined] @@
    "python-ml-api" :>
        [type |-> "fastapi", runtime |-> "python", databaseProvider |-> "postgres-local",
         orm |-> "sqlalchemy", authProvider |-> "none", vectorDB |-> "pgvector",
         embeddingProvider |-> "openai", localAI |-> "none"] @@
    "go-microservice" :>
        [type |-> "gin-api", runtime |-> "go", databaseProvider |-> "postgres-local",
         orm |-> "gorm", authProvider |-> "none", vectorDB |-> Undefined,
         embeddingProvider |-> Undefined, localAI |-> Undefined] @@
    "rust-api" :>
        [type |-> "axum-api", runtime |-> "rust", databaseProvider |-> "postgres-local",
         orm |-> "sqlx-rust", authProvider |-> "none", vectorDB |-> Undefined,
         embeddingProvider |-> Undefined, localAI |-> Undefined] @@
    "mlx-local" :>
        [type |-> "fastapi", runtime |-> "python", databaseProvider |-> "sqlite",
         orm |-> "sqlalchemy", authProvider |-> "none", vectorDB |-> "chroma",
         embeddingProvider |-> "ollama", localAI |-> "mlx"]

PresetNames == DOMAIN PRESETS

NoPresetDefaults == [f \in ConfigFields |-> Undefined]

\* the expansion with the preset's runtime left out
presetDefaultsOf_nodeRuntime(effectivePreset) ==
    IF effectivePreset = "none" THEN NoPresetDefaults
    ELSE [f \in ConfigFields |->
            IF f = "type" THEN PRESETS[effectivePreset][f]
            ELSE IF f = "runtime" THEN "node"
            ELSE coalesce(PRESETS[effectivePreset][f], "none")]

presetDefaultsOf(effectivePreset) ==
    IF effectivePreset = "none" THEN NoPresetDefaults
    ELSE [f \in ConfigFields |->
            IF f \in {"type", "runtime"} THEN PRESETS[effectivePreset][f]
            ELSE coalesce(PRESETS[effectivePreset][f], "none")]

\* every built-in preset expanded to the fields of a ProjectConfig
PresetConfigs == {presetDefaultsOf(name) : name \in PresetNames}

(***************************************************************************)
(* Repeated validation of one configuration                                *)
(***************************************************************************)
InitValidate ==
    /\ pc = "validate"
    /\ config \in Configs(MaxChanged) \cup PresetConfigs
    /\ rulesResult = Null
    /\ prevResult = Null
    /\ calls = 0
    /\ IdleCompat
    /\ IdleRegistry
    /\ IdleGenerator
    /\ IdleStack
    /\ IdleCreate
    /\ IdleFlow
    /\ IdleScorer

\* one call of validateConstraints(config)
ValidateConstraints ==
    /\ pc = "validate"
    /\ calls < MaxCalls
    /\ rulesResult' = validateConstraints(config)
    /\ prevResult' = rulesResult
    /\ calls' = calls + 1
    /\ UNCHANGED <<pc, config, notEngine>>

NextValidate == ValidateConstraints

SpecValidate == InitValidate /\ [][NextValidate]_vars

(***************************************************************************)
(* Properties of the constraint engine                                     *)
(***************************************************************************)
\* the ids of the constraints of one severity whose predicate holds, in registration order
Matching(cfg, severity) ==
    LET ids == [i \in 1..Len(CONSTRAINTS) |-> CONSTRAINTS[i]]
        hit(c) == c.severity = severity /\ check(c.id, cfg)
        kept == SelectSeq(ids, hit)
    IN  [i \in 1..Len(kept) |-> kept[i].id]

\* C2: validateConstraints returns valid = TRUE exactly when its errors list is
\* empty, which is exactly when no error-severity predicate holds on the
\* configuration, whatever the number of warnings.
C2_ValidIffNoErrors ==
    rulesResult # Null =>
        /\ rulesResult.valid = (Len(rulesResult.errors) = 0)
        /\ rulesResult.valid =
              (\A i \in 1..Len(CONSTRAINTS) :
                  CONSTRAINTS[i].severity = "error" => ~check(CONSTRAINTS[i].id, config))

\* a configuration validated with warnings but no error: valid although warned
C2_Witness ==
    /\ rulesResult # Null
    /\ Len(rulesResult.warnings) >= 2
    /\ Len(rulesResult.errors) = 0
    /\ rulesResult.valid

\* C3: every registered constraint is evaluated on every call: the errors are
\* exactly the matching error-severity constraints and the warnings exactly the
\* matching warning-severity ones, each once and in registration order, and a
\* repeated call on the same configuration returns the same lists.
C3_AllConstraintsInOrder ==
    rulesResult # Null =>
        /\ rulesResult.errors = Matching(config, "error")
        /\ rulesResult.warnings = Matching(config, "warning")
        /\ prevResult # Null => prevResult = rulesResult

\* a second call on a configuration with two errors and a later warning
C3_Witness ==
    /\ calls = 2
    /\ prevResult # Null
    /\ Len(rulesResult.errors) >= 2
    /\ Len(rulesResult.warnings) >= 1

(***************************************************************************)
(* Compatibility matrix (knowledge/compatibility): the incompatibleWith    *)
(* list of every entry.  areCompatible reads nothing else of an entry.     *)
(***************************************************************************)
compatibilityMatrix ==
    "supabase" :> {"firebase", "convex", "pocketbase", "firebase-auth", "convex-auth", "pocketbase-auth"} @@
    "neon" :> {"firebase", "convex", "pocketbase", "turso", "d1"} @@
    "turso" :> {"prisma", "firebase", "convex", "supabase", "neon", "mysql-local"} @@
    "d1" :> {"prisma", "firebase", "convex", "supabase", "neon", "turso", "nextjs"} @@
    "convex" :> {"supabase", "firebase", "pocketbase", "drizzle", "prisma", "supabase-auth", "firebase-auth"} @@
    "firebase" :> {"supabase", "convex", "pocketbase", "drizzle", "prisma", "supabase-auth", "convex-auth"} @@
    "pocketbase" :> {"supabase", "convex", "firebase", "drizzle", "prisma", "supabase-auth", "firebase-auth"} @@
    "drizzle" :> {"prisma", "firebase", "convex", "pocketbase", "mongodb-local"} @@
    "prisma" :> {"drizzle", "turso", "d1", "firebase", "convex", "pocketbase"} @@
    "kysely" :> {"prisma", "drizzle", "firebase", "convex"} @@
    "clerk" :> {"supabase-auth", "firebase-auth", "convex-auth", "pocketbase-auth", "firebase", "convex", "pocketbase"} @@
    "kinde" :> {"supabase-auth", "firebase-auth", "convex-auth", "pocketbase-auth", "firebase", "convex", "pocketbase"} @@
    "auth0" :> {"supabase-auth", "firebase-auth", "convex-auth", "pocketbase-auth", "firebase", "convex", "pocketbase"} @@
    "better-auth" :> {"clerk", "auth0", "kinde", "supabase-auth", "firebase-auth", "convex-auth"} @@
    "lucia" :> {"clerk", "auth0", "kinde", "supabase-auth", "firebase-auth"} @@
    "authjs" :> {"clerk", "auth0", "kinde", "hono", "tanstack-start", "supabase-auth", "firebase-auth"} @@
    "nextjs" :> {"hono", "express", "fastapi"} @@
    "tanstack-start" :> {"authjs", "hono", "express"} @@
    "vite-react" :> {"authjs", "nextjs"} @@
    "hono" :> {"nextjs", "tanstack-start", "authjs", "prisma"} @@
    "express" :> {"nextjs", "tanstack-start", "d1", "turso"} @@
    "fastapi" :> {"nextjs", "drizzle", "prisma", "clerk", "supabase-auth"} @@
    "vercel-ai" :> {} @@
    "langchain" :> {} @@
    "llamaindex" :> {} @@
    "pinecone" :> {} @@
    "chromadb" :> {} @@
    "pgvector" :> {"mysql-local", "mongodb-local", "turso", "d1"} @@
    "ollama" :> {}

\* the ids the matrix knows, as keys or as members, and one it never mentions
OptionIds ==
    DOMAIN compatibilityMatrix
        \cup UNION {compatibilityMatrix[k] : k \in DOMAIN compatibilityMatrix}
        \cup {"sqlite"}

\* config?.incompatibleWith.includes(other): an id without an entry declares nothing
declaresIncompatible(id, other) ==
    id \in DOMAIN compatibilityMatrix /\ other \in compatibilityMatrix[id]

\* a check that reads the first option's entry only
areCompatible_oneSided(a, b) == ~declaresIncompatible(a, b)

areCompatible(a, b) ==
    IF declaresIncompatible(a, b) THEN FALSE
    ELSE IF declaresIncompatible(b, a) THEN FALSE
    ELSE TRUE

InitCompat ==
    /\ pc = "compat"
    /\ optionA \in OptionIds
    /\ optionB \in OptionIds
    /\ compat = Null
    /\ IdleEngine
    /\ IdleRegistry
    /\ IdleGenerator
    /\ IdleStack
    /\ IdleCreate
    /\ IdleFlow
    /\ IdleScorer

\* a caller asks about the pair in both orders
AreCompatible ==
    /\ pc = "compat"
    /\ compat = Null
    /\ compat' = [ab |-> areCompatible(optionA, optionB),
                  ba |-> areCompatible(optionB, optionA)]
    /\ UNCHANGED <<pc, optionA, optionB, notCompat>>

NextCompat == AreCompatible

SpecCompat == InitCompat /\ [][NextCompat]_vars

\* C10: areCompatible answers the same for (a, b) and (b, a), and answers FALSE
\* whenever the entry of either side lists the other in incompatibleWith.
C10_CompatibleSymmetric ==
    compat # Null =>
        /\ compat.ab = compat.ba
        /\ (declaresIncompatible(optionA, optionB) \/ declaresIncompatible(optionB, optionA))
              => ~compat.ab

\* a pair stored on one side only: prisma does not list hono, hono lists prisma
C10_Witness ==
    /\ compat # Null
    /\ ~declaresIncompatible(optionA, optionB)
    /\ declaresIncompatible(optionB, optionA)
    /\ ~compat.ab

(***************************************************************************)
(* Fragment registry (generator/registry).  A fragment is its id and what  *)
(* the catalog declares for it: the dependencies and incompatibleWith      *)
(* arrays, the package.json groups, the env vars and the post-install      *)
(* steps; an absent array or group behaves as an empty one.                *)
(***************************************************************************)
FragIds == {"base", "nextjs", "docker"}

InSeq(x, s) == \E i \in 1..Len(s) : s[i] = x

\* the groups of a PackageJsonFragment; an absent group behaves as an empty one
PackageGroups == {"dependencies", "devDependencies", "scripts", "peerDependencies"}

EmptyPackageJson == [g \in PackageGroups |-> <<>>]

\* the catalog without any declaration: no relation, no manifest entry, no
\* env var and no post-install step
NoRelations ==
    [f \in FragIds |->
        [dependencies |-> <<>>, incompatibleWith |-> <<>>,
         packageJson |-> EmptyPackageJson, envVars |-> <<>>, postInstallSteps |-> <<>>]]

\* the catalogs that declare at most k entries in all their arrays together
RECURSIVE Catalogs(_)
Catalogs(k) ==
    IF k = 0 THEN {NoRelations}
    ELSE LET prev == Catalogs(k - 1)
             slots == [cat : prev, f : FragIds, t : FragIds]
         IN  prev
             \cup {[x.cat EXCEPT ![x.f].dependencies = Append(@, x.t)] :
                     x \in {y \in slots : ~InSeq(y.t, y.cat[y.f].dependencies)}}
             \cup {[x.cat EXCEPT ![x.f].incompatibleWith = Append(@, x.t)] :
                     x \in {y \in slots : ~InSeq(y.t, y.cat[y.f].incompatibleWith)}}

\* the lists of distinct fragment ids
Selections ==
    UNION {{s \in [1..Cardinality(T) -> T] : \A i, j \in DOMAIN s : i # j => s[i] # s[j]} :
             T \in SUBSET FragIds}

\* ---- resolveFragmentOrder: depth-first visit with seen and visiting sets ----
\* a back edge that is skipped instead of raised
onBackEdge_skip(st, id) == st

\* throw new Error(`Circular dependency detected involving ${fragment.id}`)
onBackEdge(st, id) == [st EXCEPT !.threw = TRUE, !.involving = id]

\* the fragment put in front of the list instead of at its end
leave_unshift(st, id) ==
    [st EXCEPT !.visiting = @ \ {id}, !.seen = @ \cup {id}, !.resolved = <<id>> \o @]

\* visiting.delete, seen.add, resolved.push
leave(st, id) ==
    [st EXCEPT !.visiting = @ \ {id}, !.seen = @ \cup {id}, !.resolved = Append(@, id)]

RECURSIVE visit(_, _, _, _)
RECURSIVE visitDependencies(_, _, _, _, _)

visit(cat, sel, id, st) ==
    IF st.threw THEN st
    ELSE IF id \in st.seen THEN st
    ELSE IF id \in st.visiting THEN onBackEdge(st, id)
    ELSE LET entered == [st EXCEPT !.visiting = @ \cup {id}]
             after == visitDependencies(cat, sel, cat[id].dependencies, 1, entered)
         IN  IF after.threw THEN after ELSE leave(after, id)

\* every declared dependency visited, selected or not
RECURSIVE visitDependencies_fromCatalog(_, _, _, _, _)
visitDependencies_fromCatalog(cat, sel, deps, i, st) ==
    IF i > Len(deps) \/ st.threw THEN st
    ELSE visitDependencies_fromCatalog(cat, sel, deps, i + 1, visit(cat, sel, deps[i], st))

\* fragments.find(f => f.id === depId): a dependency outside the selection is passed over
visitDependencies(cat, sel, deps, i, st) ==
    IF i > Len(deps) \/ st.threw THEN st
    ELSE IF InSeq(deps[i], sel)
         THEN visitDependencies(cat, sel, deps, i + 1, visit(cat, sel, deps[i], st))
         ELSE visitDependencies(cat, sel, deps, i + 1, st)

RECURSIVE visitAll(_, _, _, _)
visitAll(cat, sel, i, st) ==
    IF i > Len(sel) \/ st.threw THEN st
    ELSE visitAll(cat, sel, i + 1, visit(cat, sel, sel[i], st))

\* the list returned, or the error thrown (then nothing is returned)
resolveFragmentOrder(cat, sel) ==
    LET start == [resolved |-> <<>>, seen |-> {}, visiting |-> {},
                  threw |-> FALSE, involving |-> ""]
        final == visitAll(cat, sel, 1, start)
    IN  [threw |-> final.threw, involving |-> final.involving,
         resolved |-> IF final.threw THEN <<>> ELSE final.resolved]

\* ---- validateFragmentDependencies: both lists filled in one pass ----
RECURSIVE checkDependencies(_, _, _, _, _)
checkDependencies(sel, f, deps, i, missingDeps) ==
    IF i > Len(deps) THEN missingDeps
    ELSE IF ~InSeq(deps[i], sel)
         THEN checkDependencies(sel, f, deps, i + 1, Append(missingDeps, <<f, deps[i]>>))
         ELSE checkDependencies(sel, f, deps, i + 1, missingDeps)

RECURSIVE checkIncompatibilities(_, _, _, _, _)
checkIncompatibilities(sel, f, incs, i, conflicts) ==
    IF i > Len(incs) THEN conflicts
    ELSE IF InSeq(incs[i], sel)
         THEN checkIncompatibilities(sel, f, incs, i + 1, Append(conflicts, <<f, incs[i]>>))
         ELSE checkIncompatibilities(sel, f, incs, i + 1, conflicts)

RECURSIVE checkFragments(_, _, _, _, _)
checkFragments(cat, sel, i, missingDeps, conflicts) ==
    IF i > Len(sel)
    THEN [valid |-> Len(missingDeps) = 0 /\ Len(conflicts) = 0,
          missingDeps |-> missingDeps, conflicts |-> conflicts]
    ELSE checkFragments(cat, sel, i + 1,
            checkDependencies(sel, sel[i], cat[sel[i]].dependencies, 1, missingDeps),
            checkIncompatibilities(sel, sel[i], cat[sel[i]].incompatibleWith, 1, conflicts))

\* a check that returns at the first fragment with a problem
RECURSIVE failFastFragments(_, _, _)
failFastFragments(cat, sel, i) ==
    IF i > Len(sel) THEN [valid |-> TRUE, missingDeps |-> <<>>, conflicts |-> <<>>]
    ELSE LET m == checkDependencies(sel, sel[i], cat[sel[i]].dependencies, 1, <<>>)
             c == checkIncompatibilities(sel, sel[i], cat[sel[i]].incompatibleWith, 1, <<>>)
         IN  IF Len(m) > 0 \/ Len(c) > 0
             THEN [valid |-> FALSE, missingDeps |-> m, conflicts |-> c]
             ELSE failFastFragments(cat, sel, i + 1)

validateFragmentDependencies_failFast(cat, sel) == failFastFragments(cat, sel, 1)

validateFragmentDependencies(cat, sel) == checkFragments(cat, sel, 1, <<>>, <<>>)

\* ---- the registry functions applied to a selection ----
InitRegistry ==
    /\ pc = "registry"
    /\ catalog \in Catalogs(MaxRelations)
    /\ selected \in Selections
    /\ order = Null
    /\ report = Null
    /\ IdleEngine
    /\ IdleCompat
    /\ IdleGenerator
    /\ IdleStack
    /\ IdleCreate
    /\ IdleFlow
    /\ IdleScorer

ResolveFragmentOrder ==
    /\ pc = "registry"
    /\ order = Null
    /\ order' = resolveFragmentOrder(catalog, selected)
    /\ UNCHANGED <<pc, catalog, selected, report, notRegistry>>

ValidateFragmentDependencies ==
    /\ pc = "registry"
    /\ report = Null
    /\ report' = validateFragmentDependencies(catalog, selected)
    /\ UNCHANGED <<pc, catalog, selected, order, notRegistry>>

NextRegistry == ResolveFragmentOrder \/ ValidateFragmentDependencies

SpecRegistry == InitRegistry /\ [][NextRegistry]_vars

(***************************************************************************)
(* Properties of the fragment registry                                     *)
(***************************************************************************)
Range(s) == {s[i] : i \in 1..Len(s)}

\* the selected fragments that f declares as dependencies
SelectedDeps(cat, sel, f) == {d \in Range(sel) : InSeq(d, cat[f].dependencies)}

\* the selected fragments reached from f along at most n dependency edges
RECURSIVE Reach(_, _, _, _)
Reach(cat, sel, f, n) ==
    IF n = 0 THEN {}
    ELSE SelectedDeps(cat, sel, f)
         \cup UNION {Reach(cat, sel, d, n - 1) : d \in SelectedDeps(cat, sel, f)}

HasCycle(cat, sel) == \E f \in Range(sel) : f \in Reach(cat, sel, f, Len(sel))

IndexOf(s, x) == CHOOSE i \in 1..Len(s) : s[i] = x

\* C6: in the order resolveFragmentOrder returns, every selected dependency of a
\* fragment stands at a strictly earlier index than the fragment; for A without
\* dependencies and B depending on A the order is <<A, B>> whichever was selected first.
C6_DependenciesFirst ==
    (order # Null /\ ~order.threw) =>
        /\ \A f \in Range(selected) : InSeq(f, order.resolved)
        /\ \A f \in Range(selected) : \A d \in SelectedDeps(catalog, selected, f) :
              IndexOf(order.resolved, d) < IndexOf(order.resolved, f)
        /\ \A a, b \in FragIds :
              (/\ Range(selected) = {a, b} /\ a # b
               /\ catalog[a].dependencies = <<>>
               /\ catalog[b].dependencies = <<a>>)
              => order.resolved = <<a, b>>

\* the dependent fragment was selected first and still comes second
C6_Witness ==
    /\ order # Null
    /\ selected = <<"nextjs", "base">>
    /\ catalog["nextjs"].dependencies = <<"base">>
    /\ catalog["base"].dependencies = <<>>
    /\ order.resolved = <<"base", "nextjs">>

\* C7: on a selection whose dependency relation has a cycle (a self-dependency,
\* two fragments depending on each other, or a longer cycle) resolveFragmentOrder
\* throws the circular-dependency error and returns no order.
C7_CycleRaises ==
    (order # Null /\ HasCycle(catalog, selected)) =>
        /\ order.threw
        /\ order.involving \in Range(selected)
        /\ order.resolved = <<>>

\* a cycle through all three fragments has been met
C7_Witness ==
    /\ order # Null
    /\ order.threw
    /\ Len(selected) = 3
    /\ \A f \in FragIds : Len(catalog[f].dependencies) = 1 /\ catalog[f].dependencies[1] # f

\* C9: validateFragmentDependencies lists one missing-dependency entry for every
\* (fragment, dependency) whose dependency is not selected and one conflict entry
\* for every (fragment, incompatibleWith id) whose id is selected, each once, and
\* valid holds exactly when both lists are empty; selecting only B, which depends
\* on A, gives exactly one missing-dependency entry and no conflict.
C9_ReportsEveryProblem ==
    report # Null =>
        LET missing == {<<f, d>> \in Range(selected) \X FragIds :
                          InSeq(d, catalog[f].dependencies) /\ d \notin Range(selected)}
            clashes == {<<f, d>> \in Range(selected) \X FragIds :
                          InSeq(d, catalog[f].incompatibleWith) /\ d \in Range(selected)}
        IN  /\ Range(report.missingDeps) = missing
            /\ Len(report.missingDeps) = Cardinality(missing)
            /\ Range(report.conflicts) = clashes
            /\ Len(report.conflicts) = Cardinality(clashes)
            /\ report.valid = (missing = {} /\ clashes = {})
            /\ \A a, b \in FragIds :
                  (/\ selected = <<b>> /\ a # b
                   /\ catalog[b].dependencies = <<a>>
                   /\ catalog[b].incompatibleWith = <<>>)
                  => (Len(report.missingDeps) = 1 /\ Len(report.conflicts) = 0)

\* two fragments each with a problem: a missing dependency and a conflict together
C9_Witness ==
    /\ report # Null
    /\ Len(selected) = 2
    /\ Len(report.missingDeps) >= 2
    /\ Len(report.conflicts) >= 1
    /\ ~report.valid

(***************************************************************************)
(* Generation engine (generator/engine, collector, merger).  generateProject *)
(* runs its steps 1 to 4 without an await, then touches the file system.   *)
(* The catalog of the model holds three of the fragments, each with one    *)
(* template file that is written under the fragment's id.                  *)
(***************************************************************************)
SelectionValues == FragIds \cup {"none"}

RECURSIVE SeqsUpTo(_, _)
SeqsUpTo(S, n) ==
    IF n = 0 THEN {<<>>}
    ELSE LET shorter == SeqsUpTo(S, n - 1)
         IN  shorter \cup {Append(q, x) : q \in shorter, x \in S}

GeneratorContexts ==
    [selections : SeqsUpTo(SelectionValues, MaxSelections), features : [docker : BOOLEAN]]

\* the loop over Object.entries(context.selections)
RECURSIVE collectSelections(_, _, _)
collectSelections(values, i, collected) ==
    IF i > Len(values) THEN collected
    ELSE IF values[i] = "none" THEN collectSelections(values, i + 1, collected)
    ELSE IF values[i] \in FragIds /\ ~InSeq(values[i], collected)
         THEN collectSelections(values, i + 1, Append(collected, values[i]))
         ELSE collectSelections(values, i + 1, collected)

\* base first, then the selections, then the deployment fragment of a feature
collectFragments(ctx) ==
    LET withBase == IF "base" \in FragIds THEN <<"base">> ELSE <<>>
        withSelections == collectSelections(ctx.selections, 1, withBase)
    IN  IF ctx.features.docker /\ "docker" \in FragIds /\ ~InSeq("docker", withSelections)
        THEN Append(withSelections, "docker")
        ELSE withSelections

\* createGenerationPlan: the conflict entries of one fragment against the others
RECURSIVE planConflictsOf(_, _, _, _, _)
planConflictsOf(cat, frags, f, j, conflicts) ==
    IF j > Len(frags) THEN conflicts
    ELSE IF frags[j] = f THEN planConflictsOf(cat, frags, f, j + 1, conflicts)
    ELSE IF InSeq(frags[j], cat[f].incompatibleWith)
         THEN planConflictsOf(cat, frags, f, j + 1, Append(conflicts, <<f, frags[j]>>))
         ELSE planConflictsOf(cat, frags, f, j + 1, conflicts)

\* { ...target[g], ...source[g] } for every group: the source's value wins
mergePackageJson_keepFirst(target, source) ==
    [g \in PackageGroups |-> target[g] @@ source[g]]

mergePackageJson(target, source) ==
    [g \in PackageGroups |-> source[g] @@ target[g]]

\* the env vars of one fragment: appended when the key was not seen before
RECURSIVE collectEnvVars_lastWins(_, _, _)
collectEnvVars_lastWins(acc, envVars, j) ==
    IF j > Len(envVars) THEN acc
    ELSE collectEnvVars_lastWins(
            [acc EXCEPT !.allEnvVars =
                    Append(SelectSeq(@, LAMBDA e : e.key # envVars[j].key), envVars[j]),
                        !.seenEnvKeys = @ \cup {envVars[j].key}],
            envVars, j + 1)

RECURSIVE collectEnvVars(_, _, _)
collectEnvVars(acc, envVars, j) ==
    IF j > Len(envVars) THEN acc
    ELSE IF envVars[j].key \notin acc.seenEnvKeys
         THEN collectEnvVars([acc EXCEPT !.allEnvVars = Append(@, envVars[j]),
                                         !.seenEnvKeys = @ \cup {envVars[j].key}],
                             envVars, j + 1)
         ELSE collectEnvVars(acc, envVars, j + 1)

\* the post-install steps of one fragment: appended when not yet included
RECURSIVE collectSteps_all(_, _, _)
collectSteps_all(all, steps, j) ==
    IF j > Len(steps) THEN all ELSE collectSteps_all(Append(all, steps[j]), steps, j + 1)

RECURSIVE collectSteps(_, _, _)
collectSteps(all, steps, j) ==
    IF j > Len(steps) THEN all
    ELSE IF ~InSeq(steps[j], all) THEN collectSteps(Append(all, steps[j]), steps, j + 1)
    ELSE collectSteps(all, steps, j + 1)

\* the loop over the fragments of createGenerationPlan
RECURSIVE planLoop(_, _, _, _)
planLoop(cat, frags, i, acc) ==
    IF i > Len(frags) THEN acc
    ELSE LET fragment == cat[frags[i]]
             withEnv == collectEnvVars(acc, fragment.envVars, 1)
         IN  planLoop(cat, frags, i + 1,
                [withEnv EXCEPT
                    !.mergedPackageJson = mergePackageJson(@, fragment.packageJson),
                    !.allPostInstallSteps = collectSteps(@, fragment.postInstallSteps, 1),
                    !.conflicts = planConflictsOf(cat, frags, frags[i], 1, @)])

createGenerationPlan(cat, frags) ==
    LET acc == planLoop(cat, frags, 1,
                    [mergedPackageJson |-> EmptyPackageJson, allEnvVars |-> <<>>,
                     allPostInstallSteps |-> <<>>, conflicts |-> <<>>, seenEnvKeys |-> {}])
    IN  [fragments |-> frags,
         mergedPackageJson |-> acc.mergedPackageJson,
         allEnvVars |-> acc.allEnvVars,
         allPostInstallSteps |-> acc.allPostInstallSteps,
         conflicts |-> acc.conflicts]

\* the destinations of the template files of a fragment
FragmentFiles ==
    [base |-> <<"README.md", ".env.example">>,
     nextjs |-> <<"package.json">>,
     docker |-> <<"docker-compose.yml">>]

RECURSIVE fragmentFilesLoop(_, _, _)
fragmentFilesLoop(frags, i, filesCreated) ==
    IF i > Len(frags) THEN filesCreated
    ELSE fragmentFilesLoop(frags, i + 1, filesCreated \o FragmentFiles[frags[i]])

\* some group of the merged manifest holds a key
hasPackageJson_anyGroup(plan) ==
    \E g \in PackageGroups : DOMAIN plan.mergedPackageJson[g] # {}

\* hasPackageJson: dependencies or scripts hold at least one key
hasPackageJson(plan) ==
    \/ DOMAIN plan.mergedPackageJson.dependencies # {}
    \/ DOMAIN plan.mergedPackageJson.scripts # {}

\* writeGeneratedFiles: the fragments' files whose template is on disk, then the
\* merged package.json, then the merged .env.example
writeGeneratedFiles(plan, templatesPresent) ==
    LET fromFragments == IF templatesPresent THEN fragmentFilesLoop(plan.fragments, 1, <<>>)
                         ELSE <<>>
        writesManifest == hasPackageJson(plan) /\ ~InSeq("package.json", fromFragments)
        withManifest == IF writesManifest THEN Append(fromFragments, "package.json")
                        ELSE fromFragments
        writesEnv == Len(plan.allEnvVars) > 0 /\ ~InSeq(".env.example", withManifest)
    IN  [filesCreated |-> IF writesEnv THEN Append(withManifest, ".env.example")
                          ELSE withManifest,
         manifestWritten |-> writesManifest,
         envExampleWritten |-> writesEnv]

\* the catch around resolveFragmentOrder: the error is recorded and the
\* unordered fragments are used instead
orderedFragments(resolution, fragments) ==
    IF resolution.threw THEN fragments ELSE resolution.resolved

resolutionErrors(resolution) ==
    IF resolution.threw THEN << <<"Dependency resolution error", resolution.involving>> >>
    ELSE <<>>

InitGenerate ==
    /\ pc = "generate"
    /\ catalog \in Catalogs(MaxRelations)
    /\ context \in GeneratorContexts
    /\ selected = <<>>
    /\ order = Null
    /\ report = Null
    /\ gen = Null
    /\ disk = {}
    /\ IdleEngine
    /\ IdleCompat
    /\ IdleStack
    /\ IdleCreate
    /\ IdleFlow
    /\ IdleScorer

\* generateProject, steps 1 to 4: collect, pre-check, resolve, plan
PlanProject ==
    /\ pc = "generate"
    /\ LET fragments == collectFragments(context)
           validation == validateFragmentDependencies(catalog, fragments)
           resolution == resolveFragmentOrder(catalog, fragments)
           plan == createGenerationPlan(catalog, orderedFragments(resolution, fragments))
       IN  /\ selected' = fragments
           /\ report' = validation
           /\ order' = resolution
           /\ gen' = [warnings |-> (IF validation.valid THEN <<>>
                                    ELSE validation.missingDeps \o validation.conflicts)
                                   \o plan.conflicts,
                      errors |-> resolutionErrors(resolution),
                      plan |-> plan,
                      result |-> Null]
    /\ pc' = "write"
    /\ UNCHANGED <<catalog, context, disk, notGenerator>>

\* generateProject, steps 5 to 7: the output directory and writeGeneratedFiles;
\* a template that is not on disk is passed over
WriteProject ==
    /\ pc = "write"
    /\ \E dirNotEmpty, templatesPresent \in BOOLEAN :
         LET written == writeGeneratedFiles(gen.plan, templatesPresent)
             filesCreated == written.filesCreated
             warnings == IF dirNotEmpty THEN Append(gen.warnings, <<"not empty">>)
                         ELSE gen.warnings
         IN  /\ disk' = disk \cup Range(filesCreated)
             /\ gen' = [gen EXCEPT !.warnings = warnings,
                                   !.result = [success |-> Len(gen.errors) = 0,
                                               filesCreated |-> filesCreated,
                                               warnings |-> warnings,
                                               errors |-> gen.errors]]
    /\ pc' = "done"
    /\ UNCHANGED <<catalog, context, selected, order, report, notGenerator>>

\* a file-system call of steps 5 and 6 throws: the outer catch returns the failure
WriteProjectFails ==
    /\ pc = "write"
    /\ gen' = [gen EXCEPT !.result = [success |-> FALSE, filesCreated |-> <<>>,
                                      warnings |-> gen.warnings,
                                      errors |-> << <<"file system">> >>]]
    /\ pc' = "done"
    /\ UNCHANGED <<catalog, context, selected, order, report, disk, notGenerator>>

NextGenerate == PlanProject \/ WriteProject \/ WriteProjectFails

SpecGenerate == InitGenerate /\ [][NextGenerate]_vars

\* C8: when resolveFragmentOrder raises the circular-dependency error inside
\* generateProject, composition is aborted: no generation plan is built from the
\* fragments and no file is written.
C8_CycleAbortsGeneration ==
    (order # Null /\ order.threw) => ((gen = Null \/ gen.plan = Null) /\ disk = {})

(***************************************************************************)
(* validateStack and the advisory validator validateWithLLM.  An issue is   *)
(* modelled by its severity, a confidence by its number of tenths.  The     *)
(* await on the provider's SDK is the one point where validateStack is      *)
(* suspended; what the reasoning service answers is the input of the step   *)
(* that resumes it.                                                         *)
(***************************************************************************)
ConfidenceThreshold == 7       \* llmResult.confidence > 0.7
DefaultConfidence == 8         \* parsed.confidence || 0.8
ParseFailureConfidence == 5    \* parseJSONResponse's catch

Providers == <<"anthropic", "openai", "gemini">>
NoProvider == "none"
RequestedProviders == Range(Providers) \cup {"auto", "undefined"}
IssueSeverities == {"error", "warning", "info"}
ReplyConfidences == {0, 7, 8}

ValidatorOptions ==
    [useLLM : BOOLEAN, provider : RequestedProviders, apiKey : BOOLEAN]

\* what the SDK call of a provider can come back with: a throw (network error,
\* non-text or empty content), text that is no JSON, or a JSON object in which
\* issues and confidence may each be missing
Replies ==
    {[kind |-> "throws"], [kind |-> "unparsable"]} \cup
    [kind : {"json"}, hasIssues : {TRUE}, issues : SeqsUpTo(IssueSeverities, MaxIssues),
     hasConfidence : BOOLEAN, confidence : ReplyConfidences] \cup
    [kind : {"json"}, hasIssues : {FALSE}, issues : {<<>>},
     hasConfidence : BOOLEAN, confidence : ReplyConfidences]

getAvailableProviders(e) == SelectSeq(Providers, LAMBDA p : p \in e)

getBestProvider(e) ==
    IF "anthropic" \in e THEN "anthropic"
    ELSE IF "openai" \in e THEN "openai"
    ELSE IF "gemini" \in e THEN "gemini"
    ELSE NoProvider

isLLMAvailable(e) == getBestProvider(e) # NoProvider

parseJSONResponse(reply) ==
    IF reply.kind = "unparsable"
    THEN [hasIssues |-> TRUE, issues |-> <<>>,
          hasConfidence |-> TRUE, confidence |-> ParseFailureConfidence]
    ELSE [hasIssues |-> reply.hasIssues, issues |-> reply.issues,
          hasConfidence |-> reply.hasConfidence, confidence |-> reply.confidence]

\* the result built by validateWithAnthropic / OpenAI / Gemini from a reply
\* that did not throw: a missing or zero confidence becomes the default
providerResult(provider, reply) ==
    LET parsed == parseJSONResponse(reply)
    IN  [success |-> TRUE,
         provider |-> provider,
         issues |-> IF parsed.hasIssues THEN parsed.issues ELSE <<>>,
         confidence |-> IF parsed.hasConfidence /\ parsed.confidence # 0
                        THEN parsed.confidence ELSE DefaultConfidence]

missingKeysResult ==
    [success |-> FALSE, provider |-> NoProvider, issues |-> <<"error">>, confidence |-> 0]

failedResult(provider) ==
    [success |-> FALSE, provider |-> provider, issues |-> <<"warning">>, confidence |-> 0]

noKeysResult ==
    [success |-> FALSE, provider |-> NoProvider, issues |-> <<>>, confidence |-> 0]

\* validateWithLLM up to its first request: either it waits on a provider or
\* it has returned a result.  catchFailure is its catch block.
RECURSIVE validateWithLLM(_, _, _)
catchFailure(requested, provider, apiKey, e) ==
    LET available == SelectSeq(getAvailableProviders(e), LAMBDA p : p # provider)
    IN  IF requested = "auto" /\ Len(available) > 0
        THEN validateWithLLM(available[1], apiKey, e)
        ELSE [await |-> FALSE, result |-> failedResult(provider)]

validateWithLLM(optProvider, apiKey, e) ==
    LET requested == IF optProvider = "undefined" THEN "auto" ELSE optProvider
        provider == IF requested = "auto" THEN getBestProvider(e) ELSE requested
    IN  IF provider = NoProvider
        THEN [await |-> FALSE, result |-> missingKeysResult]
        ELSE IF ~(apiKey \/ provider \in e)
        THEN catchFailure(requested, provider, apiKey, e)
        ELSE [await |-> TRUE, requested |-> requested, provider |-> provider]

\* the overall verdict: the rules' verdict, unless a successful advisory
\* result above the threshold carries an error
overallValid_advisoryDecides(rules, llmResult) ==
    IF llmResult # Null /\ llmResult.success
    THEN Len(SelectSeq(llmResult.issues, LAMBDA i : i = "error")) = 0
    ELSE rules.valid

overallValid_atThreshold(rules, llmResult) ==
    IF /\ llmResult # Null
       /\ llmResult.success
       /\ llmResult.confidence >= ConfidenceThreshold
       /\ Len(SelectSeq(llmResult.issues, LAMBDA i : i = "error")) > 0
    THEN FALSE
    ELSE rules.valid

overallValid(rules, llmResult) ==
    IF /\ llmResult # Null
       /\ llmResult.success
       /\ llmResult.confidence > ConfidenceThreshold
       /\ Len(SelectSeq(llmResult.issues, LAMBDA i : i = "error")) > 0
    THEN FALSE
    ELSE rules.valid

\* the overall verdict line of generateSummary
generateSummary(rules, llmResult) ==
    LET issuesOf(severity) ==
            IF llmResult = Null THEN 0
            ELSE Len(SelectSeq(llmResult.issues, LAMBDA i : i = severity))
        hasErrors == ~rules.valid \/ issuesOf("error") > 0
        hasWarnings == Len(rules.warnings) > 0 \/ issuesOf("warning") > 0
    IN  IF hasErrors THEN "Validation FAILED"
        ELSE IF hasWarnings THEN "Validation PASSED with warnings"
        ELSE "Validation PASSED"

StackValidationResult(rules, llmResult) ==
    [valid |-> overallValid(rules, llmResult), rulesResult |-> rules, llmResult |-> llmResult,
     summary |-> generateSummary(rules, llmResult)]

StackConfigs == Configs(1)

InitStack ==
    /\ pc = "stack"
    /\ config \in StackConfigs
    /\ options \in ValidatorOptions
    /\ env \in SUBSET Range(Providers)
    /\ rulesResult = Null
    /\ prevResult = Null
    /\ calls = 0
    /\ llmCall = Null
    /\ requests = <<>>
    /\ stackResult = Null
    /\ IdleCompat
    /\ IdleRegistry
    /\ IdleGenerator
    /\ IdleCreate
    /\ IdleFlow
    /\ IdleScorer

\* validateStack from its entry to its return or to the await on the provider
ValidateStack ==
    /\ pc = "stack"
    /\ rulesResult' = validateConstraints(config)
    /\ IF ~options.useLLM
       THEN /\ stackResult' = StackValidationResult(rulesResult', Null)
            /\ pc' = "returned"
            /\ UNCHANGED <<llmCall, requests>>
       ELSE IF ~isLLMAvailable(env) /\ ~options.apiKey
       THEN /\ stackResult' = StackValidationResult(rulesResult', noKeysResult)
            /\ pc' = "returned"
            /\ UNCHANGED <<llmCall, requests>>
       ELSE LET call == validateWithLLM(options.provider, options.apiKey, env)
            IN  IF call.await
                THEN /\ llmCall' = call
                     /\ requests' = <<call.provider>>
                     /\ pc' = "awaiting"
                     /\ UNCHANGED stackResult
                ELSE /\ stackResult' = StackValidationResult(rulesResult', call.result)
                     /\ pc' = "returned"
                     /\ UNCHANGED <<llmCall, requests>>
    /\ UNCHANGED <<config, prevResult, calls, options, env, notStack>>

\* the provider's SDK call settles and validateStack runs on
ProviderSettles ==
    /\ pc = "awaiting"
    /\ \E reply \in Replies :
         IF reply.kind # "throws"
         THEN /\ stackResult' =
                    StackValidationResult(rulesResult, providerResult(llmCall.provider, reply))
              /\ llmCall' = Null
              /\ pc' = "returned"
              /\ UNCHANGED requests
         ELSE LET call == catchFailure(llmCall.requested, llmCall.provider, options.apiKey, env)
              IN  IF call.await
                  THEN /\ llmCall' = call
                       /\ requests' = Append(requests, call.provider)
                       /\ pc' = "awaiting"
                       /\ UNCHANGED stackResult
                  ELSE /\ stackResult' = StackValidationResult(rulesResult, call.result)
                       /\ llmCall' = Null
                       /\ pc' = "returned"
                       /\ UNCHANGED requests
    /\ UNCHANGED <<engineVars, options, env, notStack>>

NextStack == ValidateStack \/ ProviderSettles

SpecStack == InitStack /\ [][NextStack]_vars

HasErrorIssue(llmResult) == \E i \in DOMAIN llmResult.issues : llmResult.issues[i] = "error"

\* C4: whenever validateConstraints reports an error for the config,
\* validateStack returns valid = false, whatever the advisory validator did
\* (not requested, no API key, threw, failed, or reported no issues with any
\* confidence).
C4_RuleErrorsNeverSuppressed ==
    (stackResult # Null /\ Matching(config, "error") # <<>>) => ~stackResult.valid

\* the rules report an error and a successful advisory result reports no issue
C4_Witness ==
    /\ stackResult # Null
    /\ Matching(config, "error") # <<>>
    /\ stackResult.llmResult # Null
    /\ stackResult.llmResult.success
    /\ stackResult.llmResult.issues = <<>>
    /\ stackResult.llmResult.confidence > ConfidenceThreshold

\* C5: when the deterministic rules pass, validateStack returns valid = false
\* only if the advisory result succeeded, carries at least one issue classified
\* error and has a confidence above 0.7; in every other case valid stays true.
C5_AdvisoryFlipsOnlyAboveThreshold ==
    (stackResult # Null /\ Matching(config, "error") = <<>>) =>
        (stackResult.valid <=>
            ~(/\ stackResult.llmResult # Null
              /\ stackResult.llmResult.success
              /\ HasErrorIssue(stackResult.llmResult)
              /\ stackResult.llmResult.confidence > ConfidenceThreshold))

\* the rules pass and the advisory result carries an error at exactly 0.7
C5_Witness ==
    /\ stackResult # Null
    /\ Matching(config, "error") = <<>>
    /\ stackResult.llmResult # Null
    /\ stackResult.llmResult.success
    /\ HasErrorIssue(stackResult.llmResult)
    /\ stackResult.llmResult.confidence = ConfidenceThreshold
    /\ stackResult.valid

(***************************************************************************)
(* The create command (cli.ts): promptProjectConfig, the dry-run and path   *)
(* checks, scaffoldProject.  The prompt is modelled on the project types    *)
(* and options of the model, all of them JavaScript projects that can have  *)
(* a database, authentication and AI; an answer that was not asked for is   *)
(* "undefined".                                                             *)
(***************************************************************************)
\* the answers of a question: one of its choices when it is shown
asked(when, choices) == IF when THEN choices ELSE {Undefined}

\* the choices of the orm and authProvider questions
ormChoices(db) ==
    IF db \in {"convex", "pocketbase", "firebase"} THEN {"none"}
    ELSE {"drizzle", "prisma", "none"}

authChoices(db) ==
    (IF db = "supabase" THEN {"supabase-auth"} ELSE {}) \cup
    (IF db = "convex" THEN {"convex-auth"} ELSE {}) \cup
    (IF db = "firebase" THEN {"firebase-auth"} ELSE {}) \cup
    (IF db = "pocketbase" THEN {"pocketbase-auth"} ELSE {}) \cup
    {"clerk", "better-auth", "none"}

vectorDBChoices(db) ==
    {"turbopuffer", "none"} \cup (IF db = "supabase" THEN {"supabase-vector"} ELSE {})

\* the config assembled from the preset's defaults and the answers
assembleConfig(effectivePreset, answers) ==
    LET presetDefaults == presetDefaultsOf(effectivePreset)
    IN  [type |-> coalesce(presetDefaults.type, answers.type),
         runtime |-> coalesce(presetDefaults.runtime, coalesce(answers.runtime, "node")),
         databaseProvider |->
            coalesce(presetDefaults.databaseProvider, coalesce(answers.databaseProvider, "none")),
         orm |-> coalesce(presetDefaults.orm, coalesce(answers.orm, "none")),
         authProvider |->
            coalesce(presetDefaults.authProvider, coalesce(answers.authProvider, "none")),
         vectorDB |-> coalesce(presetDefaults.vectorDB, coalesce(answers.vectorDB, "none")),
         embeddingProvider |->
            coalesce(presetDefaults.embeddingProvider, coalesce(answers.embeddingProvider, "none")),
         localAI |-> coalesce(presetDefaults.localAI, coalesce(answers.localAI, "none"))]

\* what ProjectScaffolder.create leaves in the project directory
scaffoldedFiles(cfg) ==
    {"shared", cfg.type}
    \cup (IF cfg.databaseProvider # "none" /\ cfg.orm = "prisma" THEN {"prisma"} ELSE {})
    \cup (IF cfg.authProvider # "none" THEN {"src/lib/auth"} ELSE {})

CreateOptions ==
    [preset : {Undefined, "saas-starter", "unknown"}, dryRun : BOOLEAN, pathExists : BOOLEAN]

InitCreate ==
    /\ pc = "create"
    /\ cli \in CreateOptions
    /\ config = DefaultConfig
    /\ rulesResult = Null
    /\ prevResult = Null
    /\ calls = 0
    /\ IdleCompat
    /\ IdleRegistry
    /\ IdleGenerator
    /\ IdleStack
    /\ IdleScorer
    /\ IdleFlow

\* promptProjectConfig rejects a preset it does not know; the action's catch exits
PromptRejectsPreset ==
    /\ pc = "create"
    /\ cli.preset = "unknown"
    /\ pc' = "exited"
    /\ UNCHANGED <<engineVars, generatorVars, cli, notCreate>>

\* promptProjectConfig asks its questions and returns the config
PromptProjectConfig ==
    /\ pc = "create"
    /\ cli.preset # "unknown"
    /\ LET cliPreset == cli.preset IN
       \E preset \in asked(cliPreset = Undefined, {"none", "saas-starter"}) :
         LET custom == cliPreset = Undefined /\ preset = "none"
             effectivePreset == coalesce(cliPreset, coalesce(preset, "none"))
         IN
         \E track \in asked(custom, {"quick", "standard"}),
            type \in asked(custom, ProjectTypes),
            runtime \in asked(custom, {"bun", "node"}),
            db \in asked(custom, DatabaseProviders) :
         \E orm \in asked(custom /\ db # "none", ormChoices(db)),
            auth \in asked(custom /\ track # "quick", authChoices(db)),
            ai \in asked(custom /\ track # "quick", {"none", "langchain"}) :
         \E vdb \in asked(custom /\ ai \notin {Undefined, "none"}, vectorDBChoices(db)),
            local \in asked(custom /\ ai \notin {Undefined, "none"} /\ track # "quick",
                            {"none", "mlx"}) :
         \E emb \in asked(custom /\ vdb \notin {Undefined, "none"}, {"openai", "none"}) :
            config' = assembleConfig(effectivePreset,
                        [type |-> type, runtime |-> runtime, databaseProvider |-> db,
                         orm |-> orm, authProvider |-> auth, vectorDB |-> vdb,
                         embeddingProvider |-> emb, localAI |-> local])
    /\ pc' = "prompted"
    /\ UNCHANGED <<rulesResult, prevResult, calls, generatorVars, cli, notCreate>>

\* the action after the prompt: the dry run returns, an existing path exits,
\* otherwise scaffoldProject is started on the config
CreateChecks ==
    /\ pc = "prompted"
    /\ pc' = IF cli.dryRun THEN "returned"
             ELSE IF cli.pathExists THEN "exited"
             ELSE "scaffolding"
    /\ UNCHANGED <<engineVars, generatorVars, cli, notCreate>>

\* scaffoldProject writes the project; on a file-system error it removes the
\* partial directory (or fails to) and throws, and the action's catch exits
ScaffoldProject ==
    /\ pc = "scaffolding"
    /\ \/ /\ disk' = scaffoldedFiles(config)
          /\ pc' = "created"
       \/ /\ disk' \in {{}, {"shared"}}
          /\ pc' = "exited"
    /\ UNCHANGED <<engineVars, context, gen, cli, notCreate>>

NextCreate == PromptRejectsPreset \/ PromptProjectConfig \/ CreateChecks \/ ScaffoldProject

SpecCreate == InitCreate /\ [][NextCreate]_vars

\* C1: no project is generated from a configuration that has an error-severity
\* constraint violation: whenever the create command has written project files,
\* validateConstraints reports no error for the configuration.
C1_NoGenerationWithErrors ==
    (pc \in {"created", "exited"} /\ disk # {}) => validateConstraints(config).valid

(***************************************************************************)
(* Recommendation scoring (recommender/scorer).  Sub-scores are integers    *)
(* 0..100, weights are in hundredths, the final score is in hundredths of   *)
(* a point.  The texts of an option (pros, cons, bestFor) are represented   *)
(* by what the scorer finds in them: the requirement features they mention *)
(* and the number of maturity indicators they contain.                     *)
(***************************************************************************)
Complexities == {"low", "medium", "high"}
ExperienceLevels == {"beginner", "intermediate", "advanced", "expert"}
BudgetLevels == {"free", "low", "unlimited"}
TimelineUrgencies == {"urgent", "normal"}
Features == {"type-safety", "performance"}

complexityScores == [low |-> 100, medium |-> 60, high |-> 30]

complexityPreference ==
    [beginner |-> {"low"}, intermediate |-> {"low", "medium"},
     advanced |-> {"medium", "high"}, expert |-> {"low", "medium", "high"}]

budgetLevelValues == [free |-> 0, low |-> 25]

defaultWeights ==
    [complexity |-> 20, cost |-> 15, compatibility |-> 25, features |-> 20,
     ecosystem |-> 10, performance |-> 10]

\* a profile that weighs features and performance over complexity
beginnerWeights_featureHeavy ==
    [complexity |-> 10, cost |-> 10, compatibility |-> 20, features |-> 25,
     ecosystem |-> 15, performance |-> 20]

beginnerWeights ==
    [complexity |-> 35, cost |-> 10, compatibility |-> 20, features |-> 15,
     ecosystem |-> 15, performance |-> 5]

enterpriseWeights ==
    [complexity |-> 10, cost |-> 10, compatibility |-> 20, features |-> 25,
     ecosystem |-> 15, performance |-> 20]

WeightProfiles == {defaultWeights, beginnerWeights, enterpriseWeights}

\* the monthlyCost of an option: its free flag and its hobbyist price text
\* (null is the empty text: both are falsy)
CostTiers ==
    {[free |-> TRUE, hobbyist |-> <<>>],
     [free |-> FALSE, hobbyist |-> <<>>],
     [free |-> FALSE, hobbyist |-> <<"$", "2", "0", "/", "m", "o">>],
     [free |-> FALSE, hobbyist |-> <<"$", "0", "-", "2", "5", "/", "m", "o">>]}

\* documentationUrl present, ecosystem indicators found in pros, new-project
\* indicators found in cons
EcosystemProfiles ==
    {[documentationUrl |-> TRUE, established |-> 4, young |-> 0],
     [documentationUrl |-> FALSE, established |-> 0, young |-> 0],
     [documentationUrl |-> FALSE, established |-> 0, young |-> 4]}

StackOptions(ids) ==
    {[id |-> i, complexity |-> c, monthlyCost |-> m, features |-> f,
      documentationUrl |-> e.documentationUrl, established |-> e.established,
      young |-> e.young] :
        i \in ids, c \in Complexities, m \in CostTiers, f \in {{}, Features},
        e \in EcosystemProfiles}

FeatureLists == {<<>>, <<"type-safety">>, <<"type-safety", "performance">>}

UserRequirements ==
    [experience : ExperienceLevels, budget : BudgetLevels, timeline : TimelineUrgencies,
     mustHaveFeatures : FeatureLists,
     niceToHaveFeatures : {<<>>, <<"type-safety", "performance">>},
     priorities : {<<>>, <<"performance">>},
     excludeOptions : {{}, {"prisma"}}, preferredOptions : {{}, {"prisma"}}]

ScoringContexts ==
    [requirements : UserRequirements, weights : WeightProfiles,
     existingSelections : {<<>>, <<"d1">>}]

clamp(x, lo, hi) == IF x < lo THEN lo ELSE IF x > hi THEN hi ELSE x

scoreComplexity(opt, req) ==
    LET isPreferred == opt.complexity \in complexityPreference[req.experience]
        baseScore == complexityScores[opt.complexity]
        adjustedScore ==
            IF isPreferred THEN baseScore + 20
            ELSE IF req.experience = "beginner" /\ opt.complexity = "high" THEN baseScore - 30
            ELSE IF req.timeline = "urgent" /\ opt.complexity = "high" THEN baseScore - 20
            ELSE baseScore
    IN  [score |-> clamp(adjustedScore, 0, 100),
         warning |-> ~isPreferred /\ opt.complexity = "high"]

DigitValue ==
    [c \in {"0", "1", "2", "3", "4", "5", "6", "7", "8", "9"} |->
        CASE c = "0" -> 0 [] c = "1" -> 1 [] c = "2" -> 2 [] c = "3" -> 3 [] c = "4" -> 4
          [] c = "5" -> 5 [] c = "6" -> 6 [] c = "7" -> 7 [] c = "8" -> 8 [] c = "9" -> 9]

\* parseInt(text.replace(/[^0-9]/g, ''), 10) || 0
RECURSIVE parseDigits(_, _, _)
parseDigits(text, i, value) ==
    IF i > Len(text) THEN value
    ELSE IF text[i] \in DOMAIN DigitValue
         THEN parseDigits(text, i + 1, value * 10 + DigitValue[text[i]])
         ELSE parseDigits(text, i + 1, value)

parseCost(text) == parseDigits(text, 1, 0)

exceedsBudget(costValue, budget) ==
    IF budget = "unlimited" THEN FALSE ELSE costValue > budgetLevelValues[budget]

scoreCost(opt, req) ==
    IF opt.monthlyCost.free /\ req.budget = "free" THEN [score |-> 100, warning |-> FALSE]
    ELSE IF opt.monthlyCost.free THEN [score |-> 90, warning |-> FALSE]
    ELSE IF opt.monthlyCost.hobbyist = <<>> THEN [score |-> 100, warning |-> FALSE]
    ELSE IF exceedsBudget(parseCost(opt.monthlyCost.hobbyist), req.budget)
         THEN [score |-> 30, warning |-> TRUE]
         ELSE [score |-> 70, warning |-> FALSE]

scoreCompatibility(opt, ctx) ==
    LET existingIds == SelectSeq(ctx.existingSelections, LAMBDA id : id # "none")
        incompatibleCount ==
            Cardinality({i \in DOMAIN existingIds : ~areCompatible(opt.id, existingIds[i])})
    IN  IF Len(existingIds) = 0 THEN [score |-> 100, warning |-> FALSE]
        ELSE IF incompatibleCount > 0 THEN [score |-> 20, warning |-> TRUE]
        ELSE [score |-> 100, warning |-> FALSE]

Matches(list, opt) == Cardinality({i \in DOMAIN list : list[i] \in opt.features})

scoreFeatures(opt, req) ==
    LET must == Matches(req.mustHaveFeatures, opt)
        score == 70 + 10 * must - 15 * (Len(req.mustHaveFeatures) - must)
                    + 5 * Matches(req.niceToHaveFeatures, opt)
                    + 8 * Matches(req.priorities, opt)
    IN  [score |-> clamp(score, 0, 100)]

scoreEcosystem(opt) ==
    [score |-> clamp(70 + (IF opt.documentationUrl THEN 10 ELSE 0)
                        + 5 * opt.established - 10 * opt.young, 0, 100)]

scorePreferences(opt, req) ==
    IF opt.id \in req.excludeOptions THEN [score |-> 0]
    ELSE IF opt.id \in req.preferredOptions THEN [score |-> 100]
    ELSE [score |-> 70]

PreferenceWeight == 10    \* preferenceResult.score * 0.1

SubScores(opt, ctx) ==
    [complexity |-> scoreComplexity(opt, ctx.requirements).score,
     cost |-> scoreCost(opt, ctx.requirements).score,
     compatibility |-> scoreCompatibility(opt, ctx).score,
     features |-> scoreFeatures(opt, ctx.requirements).score,
     ecosystem |-> scoreEcosystem(opt).score,
     preference |-> scorePreferences(opt, ctx.requirements).score]

weightedScore(sub, weights) ==
    sub.complexity * weights.complexity + sub.cost * weights.cost
        + sub.compatibility * weights.compatibility + sub.features * weights.features
        + sub.ecosystem * weights.ecosystem + sub.preference * PreferenceWeight

\* Object.values(weights).reduce((a, b) => a + b, 0) + 0.1
totalWeight(weights) ==
    weights.complexity + weights.cost + weights.compatibility + weights.features
        + weights.ecosystem + weights.performance + PreferenceWeight

\* Math.round((weightedScore / totalWeight) * 100) / 100, in hundredths
normalizedScore(sub, weights) ==
    (200 * weightedScore(sub, weights) + totalWeight(weights)) \div (2 * totalWeight(weights))

scoreComputed(opt, ctx) ==
    [option |-> opt,
     score |-> clamp(normalizedScore(SubScores(opt, ctx), ctx.weights), 0, 10000),
     sub |-> SubScores(opt, ctx),
     excluded |-> FALSE,
     rank |-> 0]

scoreOption_noShortCircuit(opt, ctx) == scoreComputed(opt, ctx)

scoreOption(opt, ctx) ==
    IF opt.id \in ctx.requirements.excludeOptions
    THEN [option |-> opt, score |-> 0, sub |-> SubScores(opt, ctx), excluded |-> TRUE,
          rank |-> 999]
    ELSE scoreComputed(opt, ctx)

InitScore ==
    /\ pc = "score"
    /\ option \in StackOptions({"prisma"})
    /\ scoringContext \in ScoringContexts
    /\ scored = Null
    /\ candidates = <<>>
    /\ ranked = Null
    /\ prevRanked = Null
    /\ IdleEngine
    /\ IdleCompat
    /\ IdleRegistry
    /\ IdleGenerator
    /\ IdleStack
    /\ IdleCreate
    /\ IdleFlow

ScoreOption ==
    /\ pc = "score"
    /\ scored' = scoreOption(option, scoringContext)
    /\ pc' = "scored"
    /\ UNCHANGED <<option, scoringContext, candidates, ranked, prevRanked, notScorer>>

NextScore == ScoreOption

SpecScore == InitScore /\ [][NextScore]_vars

\* C11: for every option and scoring context scoreOption returns a score with
\* 0 <= score <= 100, and an option listed in excludeOptions scores exactly 0.
C11_ScoreBounded ==
    scored # Null =>
        /\ 0 <= scored.score /\ scored.score <= 10000
        /\ option.id \in scoringContext.requirements.excludeOptions => scored.score = 0

\* an excluded option whose other sub-scores are all 100 has been scored
C11_Witness ==
    /\ scored # Null
    /\ option.id \in scoringContext.requirements.excludeOptions
    /\ scored.sub.complexity = 100
    /\ scored.sub.cost = 100
    /\ scored.sub.compatibility = 100
    /\ scored.sub.features = 100
    /\ scored.sub.ecosystem = 100

\* C13: the score is the weighted sum of the sub-scores renormalized by the
\* total weight applied, so an option whose sub-scores all equal v receives
\* the score v under every weight profile.
C13_UniformSubScores ==
    \A v \in 0..100 :
        (scored # Null /\ ~scored.excluded /\ \A f \in DOMAIN scored.sub : scored.sub[f] = v)
            => scored.score = 100 * v

(***************************************************************************)
(* scoreAndRankOptions: filter, score, sort by descending score, rank.     *)
(* Array.prototype.sort is stable: an element is placed after the elements *)
(* that do not compare greater than it.                                    *)
(***************************************************************************)
RankIds == {"prisma", "drizzle", "kysely", "none"}

RankCatalog ==
    {o \in StackOptions(RankIds) :
        /\ o.complexity \in {"low", "high"}
        /\ o.monthlyCost = [free |-> TRUE, hobbyist |-> <<>>]
        /\ o.features = {}
        /\ o.documentationUrl = FALSE /\ o.young = 0}

RECURSIVE CandidateLists(_)
CandidateLists(n) ==
    IF n = 0 THEN {<<>>}
    ELSE LET shorter == CandidateLists(n - 1)
         IN  shorter \cup
             {Append(q, o) : q \in {l \in shorter : Len(l) = n - 1},
                             o \in RankCatalog}

DistinctIds(list) == \A i, j \in DOMAIN list : i # j => list[i].id # list[j].id

RankContexts ==
    {c \in ScoringContexts :
        /\ c.requirements.experience \in {"beginner", "advanced"}
        /\ c.requirements.budget = "free"
        /\ c.requirements.timeline = "normal"
        /\ c.requirements.mustHaveFeatures = <<>>
        /\ c.requirements.niceToHaveFeatures = <<>>
        /\ c.requirements.priorities = <<>>}

\* the position of an item among the items already sorted
RECURSIVE insertUnstable(_, _, _)
insertUnstable(sorted, item, i) ==
    IF i > Len(sorted) THEN Append(sorted, item)
    ELSE IF sorted[i].score > item.score THEN insertUnstable(sorted, item, i + 1)
    ELSE SubSeq(sorted, 1, i - 1) \o <<item>> \o SubSeq(sorted, i, Len(sorted))

RECURSIVE insertByScore(_, _, _)
insertByScore(sorted, item, i) ==
    IF i > Len(sorted) THEN Append(sorted, item)
    ELSE IF sorted[i].score >= item.score THEN insertByScore(sorted, item, i + 1)
    ELSE SubSeq(sorted, 1, i - 1) \o <<item>> \o SubSeq(sorted, i, Len(sorted))

RECURSIVE sortUnstable(_, _, _)
sortUnstable(list, i, sorted) ==
    IF i > Len(list) THEN sorted
    ELSE sortUnstable(list, i + 1, insertUnstable(sorted, list[i], 1))

RECURSIVE sortLoop(_, _, _)
sortLoop(list, i, sorted) ==
    IF i > Len(list) THEN sorted
    ELSE sortLoop(list, i + 1, insertByScore(sorted, list[i], 1))

sortByScore_unstable(list) == sortUnstable(list, 1, <<>>)

sortByScore(list) == sortLoop(list, 1, <<>>)

scoreAndRankOptions(opts, ctx) ==
    LET kept == SelectSeq(opts, LAMBDA o : o.id # "none" \/ Len(opts) = 1)
        scoredList == [i \in DOMAIN kept |-> scoreOption(kept[i], ctx)]
        sorted == sortByScore(scoredList)
    IN  [i \in DOMAIN sorted |-> [sorted[i] EXCEPT !.rank = i]]

InitRank ==
    /\ pc = "rank"
    /\ candidates \in {l \in CandidateLists(MaxOptions) : DistinctIds(l)}
    /\ scoringContext \in RankContexts
    /\ option = Null
    /\ scored = Null
    /\ ranked = Null
    /\ prevRanked = Null
    /\ IdleEngine
    /\ IdleCompat
    /\ IdleRegistry
    /\ IdleGenerator
    /\ IdleStack
    /\ IdleCreate
    /\ IdleFlow

\* one call of scoreAndRankOptions; the model makes two calls on the same input
ScoreAndRankOptions ==
    /\ pc = "rank"
    /\ prevRanked = Null
    /\ ranked' = [list |-> scoreAndRankOptions(candidates, scoringContext)]
    /\ prevRanked' = ranked
    /\ UNCHANGED <<pc, option, scoringContext, scored, candidates, notScorer>>

NextRank == ScoreAndRankOptions

SpecRank == InitRank /\ [][NextRank]_vars

PositionOf(list, id) == CHOOSE i \in DOMAIN list : list[i].id = id

\* C12: scoreAndRankOptions returns the options in non-increasing score order,
\* keeps options with equal scores in their input order, assigns ranks 1..n by
\* position, and a second call on the same options and context returns the
\* same list.
C12_RankedStable ==
    ranked # Null =>
        /\ \A i, j \in DOMAIN ranked.list :
             i < j =>
                /\ ranked.list[i].score >= ranked.list[j].score
                /\ ranked.list[i].score = ranked.list[j].score =>
                     PositionOf(candidates, ranked.list[i].option.id)
                        < PositionOf(candidates, ranked.list[j].option.id)
        /\ \A i \in DOMAIN ranked.list : ranked.list[i].rank = i
        /\ {ranked.list[i].option : i \in DOMAIN ranked.list} =
             {candidates[i] : i \in {k \in DOMAIN candidates :
                                        candidates[k].id # "none" \/ Len(candidates) = 1}}
        /\ prevRanked # Null => ranked = prevRanked

\* two calls were made on three options: two of them tie and the third, last
\* in the input, scores higher
C12_Witness ==
    /\ ranked # Null
    /\ prevRanked # Null
    /\ Len(ranked.list) = 3
    /\ ranked.list[2].score = ranked.list[3].score
    /\ ranked.list[1].score > ranked.list[2].score
    /\ ranked.list[1].option = candidates[3]

(***************************************************************************)
(* Properties of the generation plan's conflict list                       *)
(***************************************************************************)
Declares(cat, a, b) == InSeq(b, cat[a].incompatibleWith)

ConflictEntries(plan, a, b) ==
    {i \in DOMAIN plan.conflicts : plan.conflicts[i] \in {<<a, b>>, <<b, a>>}}

\* C14: createGenerationPlan records exactly one conflict entry for each
\* unordered pair of distinct selected fragments in which either declares the
\* other in incompatibleWith, also when both declare it, and none for a pair
\* in which neither does.
C14_OneConflictPerPair ==
    gen # Null =>
        \A a, b \in Range(gen.plan.fragments) :
            a # b =>
                Cardinality(ConflictEntries(gen.plan, a, b)) =
                    IF Declares(catalog, a, b) \/ Declares(catalog, b, a) THEN 1 ELSE 0

(***************************************************************************)
(* The merger on fragments with content: package.json groups, env vars and *)
(* post-install steps.                                                     *)
(***************************************************************************)

\* the number of content entries the fragments of a catalog declare together
MaxEntries == 2

PackageKeys == {"typescript", "build"}

\* every fragment declares its own value for a key
PackageValues == [base |-> "1.0.0", nextjs |-> "2.0.0", docker |-> "3.0.0"]

EnvKeys == {"NODE_ENV", "VPS_HOST"}

EnvDefaults == [base |-> "development", nextjs |-> "production", docker |-> "undefined"]

PostInstallSteps == {"install", "build containers"}

\* the catalogs whose fragments declare at most k content entries overall
RECURSIVE ContentCatalogs(_)
ContentCatalogs(k) ==
    IF k = 0 THEN {NoRelations}
    ELSE LET prev == ContentCatalogs(k - 1)
         IN  prev
             \cup {[x.cat EXCEPT ![x.f].packageJson[x.g] =
                                    (x.key :> PackageValues[x.f]) @@ @] :
                     x \in [cat : prev, f : FragIds, g : PackageGroups, key : PackageKeys]}
             \cup {[x.cat EXCEPT ![x.f].envVars =
                                    Append(@, [key |-> x.key, required |-> x.required,
                                               defaultValue |-> EnvDefaults[x.f]])] :
                     x \in [cat : prev, f : FragIds, key : EnvKeys, required : BOOLEAN]}
             \cup {[x.cat EXCEPT ![x.f].postInstallSteps = Append(@, x.step)] :
                     x \in {y \in [cat : prev, f : FragIds, step : PostInstallSteps] :
                               ~InSeq(y.step, y.cat[y.f].postInstallSteps)}}

InitMerge ==
    /\ pc = "merge"
    /\ catalog \in ContentCatalogs(MaxEntries)
    /\ selected \in Selections
    /\ order = Null
    /\ report = Null
    /\ context = Null
    /\ gen = Null
    /\ disk = {}
    /\ IdleEngine
    /\ IdleCompat
    /\ IdleStack
    /\ IdleCreate
    /\ IdleFlow
    /\ IdleScorer

\* createGenerationPlan on the selected fragments
CreateGenerationPlan ==
    /\ pc = "merge"
    /\ gen' = [plan |-> createGenerationPlan(catalog, selected),
               reprocessed |-> Null, written |-> Null]
    /\ pc' = "planned"
    /\ UNCHANGED <<catalog, context, selected, order, report, disk, notGenerator>>

\* createGenerationPlan on the same list followed by itself
ReprocessPlan ==
    /\ pc = "planned"
    /\ gen.reprocessed = Null
    /\ gen' = [gen EXCEPT !.reprocessed = createGenerationPlan(catalog, selected \o selected)]
    /\ UNCHANGED <<pc, catalog, context, selected, order, report, disk, notGenerator>>

\* writeGeneratedFiles on the plan
WriteGeneratedFiles ==
    /\ pc = "planned"
    /\ \E templatesPresent \in BOOLEAN :
         LET written == writeGeneratedFiles(gen.plan, templatesPresent)
         IN  /\ gen' = [gen EXCEPT !.written = written]
             /\ disk' = disk \cup Range(written.filesCreated)
    /\ pc' = "written"
    /\ UNCHANGED <<catalog, context, selected, order, report, notGenerator>>

NextMerge == CreateGenerationPlan \/ ReprocessPlan \/ WriteGeneratedFiles

SpecMerge == InitMerge /\ [][NextMerge]_vars

\* the env vars the fragments declare, in the order of the list
RECURSIVE DeclaredEnvVars(_, _, _)
DeclaredEnvVars(cat, frags, i) ==
    IF i > Len(frags) THEN <<>>
    ELSE cat[frags[i]].envVars \o DeclaredEnvVars(cat, frags, i + 1)

FirstDeclaration(declared, key) ==
    CHOOSE q \in 1..Len(declared) :
        /\ declared[q].key = key
        /\ \A r \in 1..(q - 1) : declared[r].key # key

\* C15: the env-var list of a plan holds each declared key exactly once, the
\* entry kept for a key (required flag and default included) is the first
\* declaration of that key in the order of the fragments, and the entries
\* stand in the order of those first declarations.
C15_EnvVarsFirstWins ==
    (gen # Null /\ pc # "write" /\ pc # "done") =>
        LET declared == DeclaredEnvVars(catalog, gen.plan.fragments, 1)
            all == gen.plan.allEnvVars
        IN  /\ {all[p].key : p \in 1..Len(all)} = {declared[q].key : q \in 1..Len(declared)}
            /\ \A p, q \in 1..Len(all) : p # q => all[p].key # all[q].key
            /\ \A p \in 1..Len(all) : all[p] = declared[FirstDeclaration(declared, all[p].key)]
            /\ \A p, q \in 1..Len(all) :
                   p < q => FirstDeclaration(declared, all[p].key)
                               < FirstDeclaration(declared, all[q].key)

\* two fragments of the plan declare one key with different entries
C15_Witness ==
    /\ gen # Null
    /\ pc = "planned"
    /\ \E i, j \in 1..Len(gen.plan.fragments) :
         /\ i < j
         /\ \E a \in Range(catalog[gen.plan.fragments[i]].envVars),
               b \in Range(catalog[gen.plan.fragments[j]].envVars) :
              a.key = b.key /\ a # b

\* the positions of the list whose fragment declares key in group g
DeclaringPositions(cat, frags, g, key) ==
    {i \in 1..Len(frags) : key \in DOMAIN cat[frags[i]].packageJson[g]}

Max(S) == CHOOSE x \in S : \A y \in S : y <= x

\* C16: in the merged manifest every group holds exactly the keys some fragment
\* of the list declares in that group, each with the value of the last fragment
\* declaring it in that group, whatever the other groups hold.
C16_ManifestLastWins ==
    gen # Null =>
        \A g \in PackageGroups :
            LET merged == gen.plan.mergedPackageJson[g]
                frags == gen.plan.fragments
            IN  /\ DOMAIN merged =
                       {key \in PackageKeys : DeclaringPositions(catalog, frags, g, key) # {}}
                /\ \A key \in DOMAIN merged :
                       merged[key] =
                           catalog[frags[Max(DeclaringPositions(catalog, frags, g, key))]]
                               .packageJson[g][key]

\* two fragments of the plan declare one key in one group with different values
C16_Witness ==
    /\ gen # Null
    /\ pc = "planned"
    /\ \E g \in PackageGroups, key \in PackageKeys :
         Cardinality(DeclaringPositions(catalog, gen.plan.fragments, g, key)) = 2

\* C17: the plan of a list followed by itself has the merged manifest, the
\* env-var list and the post-install step list of the plan of the list.
C17_ReprocessingIdempotent ==
    (gen # Null /\ pc \in {"planned", "written"} /\ gen.reprocessed # Null) =>
        /\ gen.reprocessed.mergedPackageJson = gen.plan.mergedPackageJson
        /\ gen.reprocessed.allEnvVars = gen.plan.allEnvVars
        /\ gen.reprocessed.allPostInstallSteps = gen.plan.allPostInstallSteps

\* a reprocessed plan whose list declares env vars and post-install steps
C17_Witness ==
    /\ gen # Null
    /\ pc \in {"planned", "written"}
    /\ gen.reprocessed # Null
    /\ Len(gen.plan.fragments) = 2
    /\ Len(gen.plan.allEnvVars) > 0
    /\ Len(gen.plan.allPostInstallSteps) > 0

\* C18: the writer writes package.json from the merged manifest exactly when
\* some group of the merged manifest holds a key.
C18_ManifestWrittenIffNonEmpty ==
    (gen # Null /\ pc = "written") =>
        (gen.written.manifestWritten <=> hasPackageJson_anyGroup(gen.plan))

\* C19: one call to the advisory validator issues at most one request to a
\* provider: once a request has failed no further request is issued.
C19_AtMostOneRequest ==
    Len(requests) <= 1

\* the configuration selects turbopuffer and no constraint other than the two
\* vector-database warnings matches it
TurbopufferOnly(cfg) ==
    /\ cfg.vectorDB = "turbopuffer"
    /\ \A i \in 1..Len(CONSTRAINTS) :
           CONSTRAINTS[i].id \notin {"turbopuffer-latency", "vectordb-needs-embeddings"}
               => ~check(CONSTRAINTS[i].id, cfg)

\* every category that has a 'none' choice, vectorDB aside, is left at 'none'
OthersNone(cfg) ==
    /\ cfg.databaseProvider = "none"
    /\ cfg.orm = "none"
    /\ cfg.authProvider = "none"
    /\ cfg.embeddingProvider = "none"
    /\ cfg.localAI = "none"

\* C20 as stated: a configuration with vectorDB turbopuffer and every other
\* category at 'none' is valid, without errors, and has exactly one warning,
\* the turbopuffer latency caveat.
C20_ExactlyOneWarning ==
    (rulesResult # Null /\ config.vectorDB = "turbopuffer"
        /\ TurbopufferOnly(config) /\ OthersNone(config)) =>
        /\ rulesResult.valid
        /\ rulesResult.errors = <<>>
        /\ rulesResult.warnings = <<"turbopuffer-latency">>

\* C20, amended: a configuration with vectorDB turbopuffer that matches no
\* other constraint is valid and without errors; its warnings are the
\* turbopuffer latency caveat, followed by the missing-embeddings warning
\* exactly when the embedding provider is 'none'.
C20_TurbopufferWarnings ==
    (rulesResult # Null /\ TurbopufferOnly(config)) =>
        /\ rulesResult.valid
        /\ rulesResult.errors = <<>>
        /\ rulesResult.warnings =
              IF config.embeddingProvider = "none"
              THEN <<"turbopuffer-latency", "vectordb-needs-embeddings">>
              ELSE <<"turbopuffer-latency">>

\* turbopuffer validated with every other category at 'none'
C20_Witness ==
    /\ rulesResult # Null
    /\ TurbopufferOnly(config)
    /\ OthersNone(config)
    /\ Len(rulesResult.warnings) = 2

\* C21: on a configuration with database mongodb-local the mongodb-sql-orm
\* error is among the errors exactly when the orm is neither prisma nor none,
\* and the same configuration with only the orm changed to prisma or to none
\* does not carry that error.
C21_MongoSqlOrm ==
    (rulesResult # Null /\ config.databaseProvider = "mongodb-local") =>
        /\ InSeq("mongodb-sql-orm", rulesResult.errors)
              <=> config.orm \notin {"prisma", "none"}
        /\ \A o \in {"prisma", "none"} :
              ~InSeq("mongodb-sql-orm",
                     validateConstraints([config EXCEPT !.orm = o]).errors)

\* mongodb-local validated with drizzle: the error is reported
C21_Witness ==
    /\ rulesResult # Null
    /\ config.databaseProvider = "mongodb-local"
    /\ config.orm = "drizzle"
    /\ InSeq("mongodb-sql-orm", rulesResult.errors)

\* C22: every configuration with database d1 and orm prisma, whatever its
\* other fields, has d1-requires-drizzle among its errors and valid = FALSE.
C22_D1RequiresDrizzle ==
    (rulesResult # Null /\ config.databaseProvider = "d1" /\ config.orm = "prisma") =>
        /\ InSeq("d1-requires-drizzle", rulesResult.errors)
        /\ ~rulesResult.valid

\* d1 with prisma validated, with further fields off their defaults
C22_Witness ==
    /\ rulesResult # Null
    /\ config.databaseProvider = "d1"
    /\ config.orm = "prisma"
    /\ Cardinality(Changed(config)) = 4
    /\ ~rulesResult.valid

\* a free low-complexity option scored for a beginner with the beginner
\* weights, a free budget and an urgent timeline, neither preferred nor excluded
FreeLowForBeginner ==
    /\ scored # Null
    /\ scoringContext.weights = beginnerWeights
    /\ scoringContext.requirements.experience = "beginner"
    /\ scoringContext.requirements.budget = "free"
    /\ scoringContext.requirements.timeline = "urgent"
    /\ scoringContext.requirements.excludeOptions = {}
    /\ scoringContext.requirements.preferredOptions = {}
    /\ option.monthlyCost.free
    /\ option.complexity = "low"

\* the paid high-complexity options of the category that are as compatible
\* with the existing selections as the scored option
PaidHighSiblings ==
    {o \in StackOptions(RankIds \ {option.id, "none"}) :
        /\ ~o.monthlyCost.free
        /\ o.complexity = "high"
        /\ scoreCompatibility(o, scoringContext).score = scored.sub.compatibility}

\* C23: for a beginner with the beginner weights, a free budget and an urgent
\* timeline, a free low-complexity option is ranked ahead of every paid
\* high-complexity sibling that is equally compatible, whatever the feature
\* and ecosystem sub-scores of the two.
C23_FreeLowRanksFirst ==
    FreeLowForBeginner =>
        \A sibling \in PaidHighSiblings :
            LET result == scoreAndRankOptions(<<sibling, option>>, scoringContext)
            IN  /\ result[1].option = option
                /\ result[1].rank = 1
                /\ result[2].option = sibling
                /\ result[1].score > result[2].score

\* the free option matches none of the required features, a paid sibling all
C23_Witness ==
    /\ FreeLowForBeginner
    /\ scored.sub.features < 70
    /\ \E sibling \in PaidHighSiblings :
           scoreFeatures(sibling, scoringContext.requirements).score = 100

\* C24: the complexity sub-score of a high-complexity option lies below the
\* base value of high complexity whenever the timeline is urgent or the
\* experience is beginner.
C24_HighComplexityPenalised ==
    (scored # Null /\ option.complexity = "high"
        /\ (scoringContext.requirements.timeline = "urgent"
            \/ scoringContext.requirements.experience = "beginner")) =>
        scored.sub.complexity < complexityScores["high"]

\* C25: under the requirements of the scored option, when that option has a
\* free tier no option without a free tier has a higher cost sub-score.
C25_FreeScoresHighest ==
    (scored # Null /\ option.monthlyCost.free) =>
        \A paid \in StackOptions({"drizzle"}) :
            ~paid.monthlyCost.free =>
                scoreCost(paid, scoringContext.requirements).score <= scored.sub.cost

\* C26: on a selection without a dependency cycle resolveFragmentOrder returns
\* a permutation of the selection: every selected fragment once, and no
\* fragment from outside the selection, named as a dependency or not.
C26_ResolvedIsPermutation ==
    (order # Null /\ ~HasCycle(catalog, selected)) =>
        /\ ~order.threw
        /\ Len(order.resolved) = Len(selected)
        /\ Range(order.resolved) = Range(selected)

\* a resolved selection one of whose fragments depends on an unselected one
C26_Witness ==
    /\ order # Null
    /\ ~order.threw
    /\ Len(selected) = 2
    /\ \E f \in Range(selected), d \in FragIds \ Range(selected) :
           InSeq(d, catalog[f].dependencies)

\* C27: the summary of validateStack reports 'Validation FAILED' exactly when
\* the valid flag it returns is false.
C27_SummaryAgreesWithValid ==
    stackResult # Null =>
        (stackResult.summary = "Validation FAILED" <=> ~stackResult.valid)

\* C28: every built-in preset, expanded to a config with its unspecified
\* categories at 'none', is valid: validateConstraints returns valid = TRUE
\* and an empty errors list for it.
C28_PresetsAreValid ==
    (rulesResult # Null /\ config \in PresetConfigs) =>
        /\ rulesResult.valid
        /\ rulesResult.errors = <<>>

\* the mlx-local preset validated: a python ORM on the python runtime, one warning
C28_Witness ==
    /\ rulesResult # Null
    /\ config = presetDefaultsOf("mlx-local")
    /\ config.runtime = "python"
    /\ rulesResult.warnings = <<"mlx-apple-only">>

(***************************************************************************)
(* The questionnaire (questionnaire/flow): QuestionFlow over the questions *)
(* of the catalogue that decide one another's visibility, and runFlow.     *)
(***************************************************************************)
\* the ids of the questions, in the order of allQuestions
Questions ==
    <<"projectType", "frontend", "backend", "needsAI", "ai", "needsRAG", "vectorDb",
      "includeDocker">>

QuestionIds == Range(Questions)

\* the answers a question offers; a confirm question answers true or false
Choices ==
    [projectType |-> {"web-app", "api", "ai-app", "static-site"},
     frontend |-> {"nextjs", "vite-react"},
     backend |-> {"hono"},
     needsAI |-> {"true", "false"},
     ai |-> {"vercel-ai", "none"},
     needsRAG |-> {"true", "false"},
     vectorDb |-> {"pinecone"},
     includeDocker |-> {"true", "false"}]

\* required !== false
Required == QuestionIds \ {"includeDocker"}

Category ==
    [projectType |-> "project", frontend |-> "frontend", backend |-> "backend",
     needsAI |-> "ai", ai |-> "ai", needsRAG |-> "ai", vectorDb |-> "ai",
     includeDocker |-> "tooling"]

\* the questions that carry a showWhen predicate
HasShowWhen == QuestionIds \ {"projectType", "includeDocker"}

\* the showWhen predicate of a question on the answers
showWhen(id, answers) ==
    CASE id = "frontend" ->
            answers.projectType \in {"web-app", "ai-app", "static-site"}
      [] id = "backend" ->
            /\ answers.projectType \in {"web-app", "api", "ai-app", "mcp-server", "worker"}
            /\ answers.frontend # "nextjs"
      [] id = "needsAI" ->
            answers.projectType = "ai-app" \/ answers.projectType \in {"web-app", "api"}
      [] id = "ai" ->
            answers.needsAI = "true" \/ answers.projectType = "ai-app"
      [] id = "needsRAG" ->
            answers.ai # Undefined /\ answers.ai # "none"
      [] id = "vectorDb" ->
            answers.needsRAG = "true"
      [] OTHER -> TRUE

\* the FlowState after construction
NewFlowState ==
    [answers |-> [q \in QuestionIds |-> Undefined], history |-> <<>>,
     skippedQuestions |-> <<>>, completedCategories |-> <<>>]

getVisibleQuestions(state) ==
    SelectSeq(Questions, LAMBDA q : q \notin HasShowWhen \/ showWhen(q, state.answers))

Unanswered(state, q) ==
    state.answers[q] = Undefined /\ ~InSeq(q, state.skippedQuestions)

\* visibleQuestions.find(unanswered and not skipped) || null
firstUnanswered(state, visible, from) ==
    LET open == {i \in from..Len(visible) : Unanswered(state, visible[i])}
    IN  IF open = {} THEN "null" ELSE visible[CHOOSE i \in open : \A j \in open : i <= j]

getCurrentQuestion(state) ==
    LET visible == getVisibleQuestions(state)
    IN  IF Len(state.history) > 0
        THEN IF InSeq(state.history[Len(state.history)], visible)
             THEN state.history[Len(state.history)] ELSE "null"
        ELSE firstUnanswered(state, visible, 1)

getNextQuestion(state) ==
    LET visible == getVisibleQuestions(state)
        currentQuestion == getCurrentQuestion(state)
    IN  IF currentQuestion = "null" THEN firstUnanswered(state, visible, 1)
        ELSE firstUnanswered(state, visible, IndexOf(visible, currentQuestion) + 1)

\* checkCategoryCompletion: the category of the question is recorded once all
\* its questions are answered, skipped or hidden
checkCategoryCompletion(state, questionId) ==
    LET category == Category[questionId]
        allAnswered ==
            \A q \in {x \in QuestionIds : Category[x] = category} :
                \/ state.answers[q] # Undefined
                \/ InSeq(q, state.skippedQuestions)
                \/ (q \in HasShowWhen /\ ~showWhen(q, state.answers))
    IN  IF allAnswered /\ ~InSeq(category, state.completedCategories)
        THEN [state EXCEPT !.completedCategories = Append(@, category)]
        ELSE state

\* the answers of hidden questions kept
invalidateDependentAnswers_keep(state, i) == state

\* invalidateDependentAnswers: one pass over the questions, in order
RECURSIVE invalidateDependentAnswers(_, _)
invalidateDependentAnswers(state, i) ==
    IF i > Len(Questions) THEN state
    ELSE LET q == Questions[i]
             wasVisible == state.answers[q] # Undefined
             isNowVisible == showWhen(q, state.answers)
         IN  IF q \in HasShowWhen /\ wasVisible /\ ~isNowVisible
             THEN invalidateDependentAnswers(
                    [state EXCEPT !.answers[q] = Undefined,
                                  !.history = SelectSeq(@, LAMBDA h : h # q)],
                    i + 1)
             ELSE invalidateDependentAnswers(state, i + 1)

setAnswer(state, questionId, answer) ==
    LET stored == [state EXCEPT !.answers[questionId] = answer,
                                !.history = IF InSeq(questionId, @) THEN @
                                            ELSE Append(@, questionId)]
    IN  invalidateDependentAnswers(checkCategoryCompletion(stored, questionId), 1)

\* goBack past its early return: the last entry of the history is popped
goBack(state) ==
    [state EXCEPT !.history = SubSeq(@, 1, Len(@) - 1)]

\* every visible question counted, whatever showWhen says
isComplete_everyQuestion(state) ==
    \A q \in Required :
        state.answers[q] # Undefined \/ InSeq(q, state.skippedQuestions)

isComplete(state) ==
    \A q \in Range(getVisibleQuestions(state)) \cap Required :
        state.answers[q] # Undefined \/ InSeq(q, state.skippedQuestions)

getResult(state) ==
    [completed |-> isComplete(state), cancelled |-> FALSE, answers |-> state.answers,
     questionsAnswered |-> Cardinality({q \in QuestionIds : state.answers[q] # Undefined}),
     questionsSkipped |-> Len(state.skippedQuestions)]

(***************************************************************************)
(* A QuestionFlow driven by its caller: answers to any question, in any    *)
(* order, and steps back (allowBack is true by default).                   *)
(***************************************************************************)
InitFlow ==
    /\ pc = "flow"
    /\ flow = NewFlowState
    /\ question = "null"
    /\ flowResult = Null
    /\ flowCalls = 0
    /\ IdleEngine
    /\ IdleCompat
    /\ IdleRegistry
    /\ IdleGenerator
    /\ IdleStack
    /\ IdleCreate
    /\ IdleScorer

SetAnswer ==
    /\ pc = "flow"
    /\ flowCalls < MaxAnswers
    /\ \E q \in QuestionIds : \E answer \in Choices[q] :
         flow' = setAnswer(flow, q, answer)
    /\ flowCalls' = flowCalls + 1
    /\ UNCHANGED <<pc, question, flowResult, notFlow>>

GoBack ==
    /\ pc = "flow"
    /\ Len(flow.history) >= 2
    /\ flow' = goBack(flow)
    /\ UNCHANGED <<pc, question, flowResult, flowCalls, notFlow>>

NextFlow == SetAnswer \/ GoBack

SpecFlow == InitFlow /\ [][NextFlow]_vars

\* C29: no question whose showWhen predicate is false under the current
\* answers has a stored answer or an entry in the history.
C29_HiddenQuestionsForgotten ==
    flow # Null =>
        \A q \in HasShowWhen :
            ~showWhen(q, flow.answers) =>
                flow.answers[q] = Undefined /\ ~InSeq(q, flow.history)

\* answers were given to the AI questions, the caller stepped back to the
\* project type and changed it to one that hides them
C29_Witness ==
    /\ flow # Null
    /\ flowCalls = 5
    /\ flow.history = <<"projectType">>
    /\ flow.answers.projectType = "static-site"
    /\ flow.answers.frontend # Undefined
    /\ InSeq("ai", flow.completedCategories)
    /\ flow.answers.ai = Undefined

(***************************************************************************)
(* runFlow on a new QuestionFlow, with an answer provider that returns one *)
(* of the question's choices.                                              *)
(***************************************************************************)
InitRunFlow ==
    /\ pc = "runFlow"
    /\ flow = NewFlowState
    /\ question = "null"
    /\ flowResult = Null
    /\ flowCalls = 0
    /\ IdleEngine
    /\ IdleCompat
    /\ IdleRegistry
    /\ IdleGenerator
    /\ IdleStack
    /\ IdleCreate
    /\ IdleScorer

\* let question = flow.getCurrentQuestion() || flow.getNextQuestion()
RunFlowStart ==
    /\ pc = "runFlow"
    /\ question' = IF getCurrentQuestion(flow) # "null" THEN getCurrentQuestion(flow)
                   ELSE getNextQuestion(flow)
    /\ pc' = "asking"
    /\ UNCHANGED <<flow, flowResult, flowCalls, notFlow>>

\* one turn of the loop: the provider's answer is stored, the next question is fetched
AnswerProvided ==
    /\ pc = "asking"
    /\ question # "null"
    /\ \E answer \in Choices[question] :
         /\ flow' = setAnswer(flow, question, answer)
         /\ question' = getNextQuestion(flow')
    /\ flowCalls' = flowCalls + 1
    /\ UNCHANGED <<pc, flowResult, notFlow>>

\* the loop ends: return flow.complete()
FlowComplete ==
    /\ pc = "asking"
    /\ question = "null"
    /\ flowResult' = getResult(flow)
    /\ pc' = "flowReturned"
    /\ UNCHANGED <<flow, question, flowCalls, notFlow>>

NextRunFlow == RunFlowStart \/ AnswerProvided \/ FlowComplete

\* the provider's promise settles and the loop runs on: every enabled step is taken
SpecRunFlow == InitRunFlow /\ [][NextRunFlow]_vars /\ WF_vars(NextRunFlow)

\* C30: runFlow eventually returns, and the result it returns has completed = TRUE.
C30_RunFlowCompletes ==
    <>(pc = "flowReturned" /\ flowResult.completed)

\* runFlow returned with completed = TRUE while required questions stayed hidden
C30_Witness ==
    /\ pc = "flowReturned"
    /\ flowResult.completed
    /\ flow.answers.projectType = "static-site"
    /\ flow.answers.needsAI = Undefined
    /\ flowCalls = 3
====
